---------------------------- MODULE Spec2Model ----------------------------
(***************************************************************************)
(* A model of ancestrydl's tree download (commands/download_tree.go), its  *)
(* source download and the facts-page brace scanner (pkg/ancestry/api.go). *)
(* The specifications of the module:                                       *)
(*   Spec        the fetchTreeData run: count probe, catalog pages,        *)
(*               relationships, facts, event inference                     *)
(*   SpecInfer   inferEventTypes applied to bounded populations            *)
(*   SpecSources the DownloadSources run and its citation index            *)
(*   SpecScan    the brace scanner of GetPersonFactsFromHTML               *)
(*   SpecFacts   one detail call: factsHTMLReq, the scan, the merge        *)
(*   SpecMedia   downloadAllMedia over a media directory of a prior run    *)
(*   SpecSourcesRerun  DownloadSources on the output of an earlier run     *)
(*   SpecRerun   fetchTreeData run twice against the same answers          *)
(*   SpecLive    fetchTreeData with the facts retry loop, under fairness   *)
(*   SpecSession login and logout on the keyring and the cookies file      *)
(*   SpecSanitize  the two definitions of sanitizeFilename on bounded names *)
(*   SpecKin     inferEventTypes applied to one family of five             *)
(*   SpecFamilyView  processFamilyView applied to bounded families         *)
(***************************************************************************)
EXTENDS Integers, Sequences, FiniteSets, TLC

VARIABLES
    \* ---- brace scanner (GetPersonFactsFromHTML) ----
    hasMarker,      \* strings.Index(htmlContent, startMarker) != -1
    tail,           \* htmlContent[jsonStartIndex:], the text after the marker
    spc,            \* position in GetPersonFactsFromHTML
    i,              \* loop index (1-based; jsonStartIndex is 1)
    braceCount,
    inString,
    escaped,
    jsonEndIndex,   \* exclusive end of the slice (1-based)
    jsonStr,        \* htmlContent[jsonStartIndex:jsonEndIndex]
    scanRes,        \* what GetPersonFactsFromHTML returns
    \* ---- DownloadSources ----
    srcPc,              \* position in DownloadSources
    sRoster,            \* allPersons (person IDs)
    sIdx,               \* index of the person processAllPersons is at
    sData,              \* researchData of that person
    sPos,               \* index of the citation reference processFacts is at
    sCitationIDs,       \* citationIDsForPerson
    downloadedSources,  \* run-wide index: citation ID -> FactEditData
    peopleIndex,        \* per-person source index written by savePersonSourceIndex
    dsCalls,            \* calls of downloadSource, per citation ID
    imgCalls,           \* calls of DownloadRecordImage, per citation ID
    imgFailed,          \* citation IDs whose image download or save failed
    refLog,             \* every citation reference processed: who, what, how
    sWarnings,          \* persons reported by "[Warning] Failed to process"
    srcResult,          \* what DownloadSources returns
    \* ---- inferEventTypes on its own ----
    infPc,              \* "ready" before the call, "done" after it
    inPersons,          \* persons as passed in
    inRels,             \* relationships as passed in
    outPersons,         \* persons when inferEventTypes returns
    \* ---- fetchTreeData ----
    pc,                 \* position in fetchTreeData
    totalCount,         \* what GetPersonsCount answered
    page,               \* downloadAllPersons' loop variable
    allPersons,         \* the roster
    relationships,      \* buildRelationships' relationships map
    familyViewEvents,   \* buildRelationships' eventsMap
    cur,                \* roster index (1-based) of the per-person loops
    requests,           \* the requests issued so far, with their outcome
    printed,            \* the per-person messages written to stdout
    result,             \* what fetchTreeData returns
    \* ---- one detail call: fetchFactsForAllPersons' loop body ----
    fPc,                \* position: factsHTMLReq, the scan, the loop body's end
    attempt,            \* factsHTMLReq's loop variable
    fLog,               \* the sleeps and requests of factsHTMLReq, in order
    fFacts,             \* the PersonFacts the page's object decodes to
    fGraph,             \* persons[i].Events when the loop body starts
    fEvents,            \* persons[i].Events
    fWarned,            \* the "[Warning] Failed to get facts" line was printed
    \* ---- downloadAllMedia ----
    mPc,                \* position in downloadAllMedia
    mIdx,               \* roster index of the person processed
    mItems,             \* mediaItems of that person
    mPos,               \* position in mediaItems (idx + 1)
    mFiles,             \* personInfo.Files
    disk,               \* the files under outputDir/media: path -> content
    mCalls,             \* the processMediaItem calls made, with what they did
    mediaIndex,         \* the media index returned
    totalDownloaded,
    \* ---- a second run of fetchTreeData ----
    runNo,              \* 1 in the first run of the command, 2 in the second
    prior,              \* what the first run was answered and what it returned
    \* ---- login and logout ----
    keyring,            \* the system keyring entries of service "ancestrydl"
    cookieFile,         \* ~/.ancestrydl/cookies.json
    sessLog,            \* the login and logout commands run, with what they returned
    \* ---- one call of a function of the program ----
    callBy,             \* the function called
    callIn,             \* its argument
    callOut             \* what it returned

scanVars == <<hasMarker, tail, spc, i, braceCount, inString, escaped,
              jsonEndIndex, jsonStr, scanRes>>

srcVars == <<srcPc, sRoster, sIdx, sData, sPos, sCitationIDs, downloadedSources,
             peopleIndex, dsCalls, imgCalls, imgFailed, refLog, sWarnings, srcResult>>

infVars == <<infPc, inPersons, inRels, outPersons>>

runVars == <<pc, totalCount, page, allPersons, relationships, familyViewEvents,
             cur, requests, printed, result>>

facVars == <<fPc, attempt, fLog, fFacts, fGraph, fEvents, fWarned>>

medVars == <<mPc, mIdx, mItems, mPos, mFiles, disk, mCalls, mediaIndex, totalDownloaded>>

rerunVars == <<runNo, prior>>

sesVars == <<keyring, cookieFile, sessLog>>

callVars == <<callBy, callIn, callOut>>

vars == <<scanVars, srcVars, infVars, runVars, facVars, medVars, rerunVars, sesVars,
          callVars>>

\* what the scanner leaves alone
notScan == <<srcVars, infVars, runVars, facVars, medVars, rerunVars, sesVars,
            callVars>>

\* what DownloadSources leaves alone
notSrc == <<scanVars, infVars, runVars, facVars, medVars, rerunVars, sesVars,
            callVars>>

\* what a lone inferEventTypes call leaves alone
notInf == <<scanVars, srcVars, runVars, facVars, medVars, rerunVars, sesVars,
            callVars>>

\* what fetchTreeData leaves alone
notRun == <<scanVars, srcVars, infVars, facVars, medVars, rerunVars, sesVars,
            callVars>>

\* what the detail call leaves alone, the scanner apart
notFac == <<srcVars, infVars, runVars, medVars, rerunVars, sesVars,
            callVars>>

\* what downloadAllMedia leaves alone
notMed == <<scanVars, srcVars, infVars, runVars, facVars, rerunVars, sesVars,
            callVars>>

--------------------------------------------------------------------------
(* Brace scanner *)

LB == "{"
RB == "}"
QT == "\""
BS == "\\"
OT == "a"

Chars == {LB, RB, QT, BS, OT}

MaxLen == 6

Texts == UNION {[1..n -> Chars] : n \in 0..MaxLen}

jsonStartIndex == 1

ScanIdle ==
    /\ hasMarker = FALSE /\ tail = <<>> /\ spc = "idle" /\ i = 0
    /\ braceCount = 0 /\ inString = FALSE /\ escaped = FALSE
    /\ jsonEndIndex = 0 /\ jsonStr = <<>> /\ scanRes = "none"

\* no researchData held
NoResearchData == [cites |-> <<>>, sources |-> {}]

SrcIdle ==
    /\ srcPc = "idle" /\ sRoster = <<>> /\ sIdx = 0 /\ sData = NoResearchData /\ sPos = 0
    /\ sCitationIDs = <<>> /\ downloadedSources = <<>> /\ peopleIndex = <<>>
    /\ dsCalls = <<>> /\ imgCalls = <<>> /\ imgFailed = {} /\ refLog = <<>>
    /\ sWarnings = {} /\ srcResult = "none"

InfIdle ==
    /\ infPc = "idle" /\ inPersons = <<>> /\ inRels = <<>> /\ outPersons = <<>>

RunIdle ==
    /\ pc = "idle" /\ totalCount = 0 /\ page = 0 /\ allPersons = <<>>
    /\ relationships = <<>> /\ familyViewEvents = <<>> /\ cur = 0
    /\ requests = <<>> /\ printed = {} /\ result = "none"

FacIdle ==
    /\ fPc = "idle" /\ attempt = 0 /\ fLog = <<>> /\ fFacts = <<>>
    /\ fGraph = <<>> /\ fEvents = <<>> /\ fWarned = FALSE

\* the command has not been run before
FirstRun == runNo = 1 /\ prior = <<>>

\* no function is being called
CallIdle == callBy = "none" /\ callIn = <<>> /\ callOut = <<>>

\* no keyring entry, no file
Absent == "<absent>"

SesIdle ==
    /\ keyring = [username |-> Absent, password |-> Absent]
    /\ cookieFile = Absent
    /\ sessLog = <<>>

MedIdle ==
    /\ mPc = "idle" /\ mIdx = 0 /\ mItems = <<>> /\ mPos = 0 /\ mFiles = <<>>
    /\ disk = {} /\ mCalls = <<>> /\ mediaIndex = {} /\ totalDownloaded = 0

ScanInit ==
    /\ FirstRun
    /\ CallIdle
    /\ SesIdle
    /\ MedIdle
    /\ SrcIdle
    /\ InfIdle
    /\ RunIdle
    /\ FacIdle
    /\ hasMarker \in BOOLEAN
    /\ tail \in (IF hasMarker THEN Texts ELSE {<<>>})
    /\ spc = "find"
    /\ i = 0
    /\ braceCount = 0
    /\ inString = FALSE
    /\ escaped = FALSE
    /\ jsonEndIndex = 0
    /\ jsonStr = <<>>
    /\ scanRes = "none"

\* startIndex == -1: return nil, nil
MarkerAbsent ==
    /\ spc = "find"
    /\ ~hasMarker
    /\ spc' = "done"
    /\ scanRes' = "noData"
    /\ UNCHANGED <<hasMarker, tail, i, braceCount, inString, escaped, jsonEndIndex, jsonStr>>
    /\ UNCHANGED notScan

\* the marker is found: the loop variables are initialised
MarkerFound ==
    /\ spc = "find"
    /\ hasMarker
    /\ spc' = "scan"
    /\ i' = jsonStartIndex
    /\ braceCount' = 0
    /\ inString' = FALSE
    /\ escaped' = FALSE
    /\ jsonEndIndex' = jsonStartIndex
    /\ UNCHANGED <<hasMarker, tail, jsonStr, scanRes>>
    /\ UNCHANGED notScan

\* ch == '{' outside a string
OpenDelta(ch, inStr) == IF ~inStr /\ ch = LB THEN 1 ELSE 0

\* a scanner that counts a closing brace inside a quoted string as well
CloseDeltaAnywhere(ch, inStr) == IF ch = RB THEN 1 ELSE 0

\* ch == '}' outside a string
CloseDelta(ch, inStr) == IF ~inStr /\ ch = RB THEN 1 ELSE 0

\* ch == '\\' sets escaped (in or out of a string)
IsEscape(ch) == ch = BS

\* one iteration of the for loop over htmlContent[i]
ScanStep ==
    /\ spc = "scan"
    /\ i <= Len(tail)
    /\ LET ch == tail[i] IN
        IF escaped
        THEN /\ escaped' = FALSE
             /\ i' = i + 1
             /\ UNCHANGED <<braceCount, inString, jsonEndIndex, spc>>
        ELSE IF IsEscape(ch)
        THEN /\ escaped' = TRUE
             /\ i' = i + 1
             /\ UNCHANGED <<braceCount, inString, jsonEndIndex, spc>>
        ELSE IF ch = QT
        THEN /\ inString' = ~inString
             /\ i' = i + 1
             /\ UNCHANGED <<braceCount, escaped, jsonEndIndex, spc>>
        ELSE LET bc == braceCount + OpenDelta(ch, inString) - CloseDelta(ch, inString) IN
             /\ braceCount' = bc
             /\ IF CloseDelta(ch, inString) = 1 /\ bc = 0
                THEN /\ jsonEndIndex' = i + 1      \* break
                     /\ spc' = "after"
                     /\ i' = i
                ELSE /\ i' = i + 1
                     /\ UNCHANGED <<jsonEndIndex, spc>>
             /\ UNCHANGED <<inString, escaped>>
    /\ UNCHANGED <<hasMarker, tail, jsonStr, scanRes>>
    /\ UNCHANGED notScan

\* i == len(htmlContent): the loop ends without break
ScanEnd ==
    /\ spc = "scan"
    /\ i > Len(tail)
    /\ spc' = "after"
    /\ UNCHANGED <<hasMarker, tail, i, braceCount, inString, escaped, jsonEndIndex, jsonStr, scanRes>>
    /\ UNCHANGED notScan

\* if braceCount != 0: error
Unbalanced ==
    /\ spc = "after"
    /\ braceCount # 0
    /\ spc' = "done"
    /\ scanRes' = "unbalanced"
    /\ UNCHANGED <<hasMarker, tail, i, braceCount, inString, escaped, jsonEndIndex, jsonStr>>
    /\ UNCHANGED notScan

\* a check that lets a depth below zero pass: if braceCount > 0
SliceUnlessOpen ==
    /\ spc = "after"
    /\ braceCount <= 0
    /\ jsonStr' = SubSeq(tail, jsonStartIndex, jsonEndIndex - 1)
    /\ spc' = "unmarshal"
    /\ UNCHANGED <<hasMarker, tail, i, braceCount, inString, escaped, jsonEndIndex, scanRes>>
    /\ UNCHANGED notScan

\* jsonStr := htmlContent[jsonStartIndex:jsonEndIndex]
Slice ==
    /\ spc = "after"
    /\ braceCount = 0
    /\ jsonStr' = SubSeq(tail, jsonStartIndex, jsonEndIndex - 1)
    /\ spc' = "unmarshal"
    /\ UNCHANGED <<hasMarker, tail, i, braceCount, inString, escaped, jsonEndIndex, scanRes>>
    /\ UNCHANGED notScan

\* json.Unmarshal: over Chars (no ':' and no ','), the only JSON object is {}
ValidJSON(s) == s = <<LB, RB>>

Unmarshal ==
    /\ spc = "unmarshal"
    /\ spc' = "done"
    /\ scanRes' = (IF ValidJSON(jsonStr) THEN "ok" ELSE "unmarshalError")
    /\ UNCHANGED <<hasMarker, tail, i, braceCount, inString, escaped, jsonEndIndex, jsonStr>>
    /\ UNCHANGED notScan

ScanNext ==
    \/ MarkerAbsent
    \/ MarkerFound
    \/ ScanStep
    \/ ScanEnd
    \/ Unbalanced
    \/ Slice
    \/ Unmarshal

SpecScan == ScanInit /\ [][ScanNext]_vars

--------------------------------------------------------------------------
(* The matching close of an object, by recursive descent over the text:   *)
(* a quoted string runs to the next quote that no backslash escapes, an   *)
(* object runs to the '}' that follows its members.  0 means "none".      *)

RECURSIVE StrEnd(_, _)
\* s[j-1] is inside a string opened earlier: index of the closing quote
StrEnd(s, j) ==
    IF j > Len(s) THEN 0
    ELSE IF s[j] = BS THEN StrEnd(s, j + 2)
    ELSE IF s[j] = QT THEN j
    ELSE StrEnd(s, j + 1)

RECURSIVE ObjWalk(_, _, _)
\* walks the members of an object opened `open` levels deep above j
ObjWalk(s, j, open) ==
    IF j > Len(s) THEN 0
    ELSE IF s[j] = RB THEN (IF open = 1 THEN j ELSE ObjWalk(s, j + 1, open - 1))
    ELSE IF s[j] = LB THEN ObjWalk(s, j + 1, open + 1)
    ELSE IF s[j] = QT
         THEN LET e == StrEnd(s, j + 1) IN IF e = 0 THEN 0 ELSE ObjWalk(s, e + 1, open)
    ELSE IF s[j] = BS THEN 0          \* a backslash outside a string: no object
    ELSE ObjWalk(s, j + 1, open)

\* index of the '}' matching s[1] = '{', or 0
ObjEnd(s) == IF Len(s) = 0 \/ s[1] # LB THEN 0 ELSE ObjWalk(s, 2, 1)

BalancedObject(s) == ObjEnd(s) # 0

\* C10: when the text after the marker is a brace-balanced object, the scan
\* reports no unbalanced-brace error and the extracted slice ends exactly at
\* the closing brace that matches the first opening brace (braces inside
\* quoted strings and backslash-escaped quotes do not move that end).
C10_SliceEndsAtMatchingBrace ==
    (hasMarker /\ BalancedObject(tail)) =>
        /\ scanRes # "unbalanced"
        /\ spc \in {"after", "unmarshal", "done"} =>
              /\ braceCount = 0
              /\ jsonEndIndex = ObjEnd(tail) + 1
        /\ spc \in {"unmarshal", "done"} =>
              jsonStr = SubSeq(tail, 1, ObjEnd(tail))

\* a finished scan of {"}"}a : the object holds "}" as a string and more text follows
C10_Witness ==
    /\ spc = "done"
    /\ hasMarker
    /\ tail = <<LB, QT, RB, QT, RB, OT>>
    /\ BalancedObject(tail)
    /\ jsonStr = <<LB, QT, RB, QT, RB>>

\* a scan that went past the marker and did not end with the unbalanced-brace
\* error
NoBraceError == hasMarker /\ spc \in {"unmarshal", "done"} /\ scanRes # "unbalanced"

\* C29 as stated: the depth is never below zero, and a scan without the
\* unbalanced-brace error has a slice that starts with an opening brace and
\* ends with the closing brace it stopped at.
C29_SuccessOnlyAtMatchingBrace ==
    /\ braceCount >= 0
    /\ NoBraceError =>
        /\ jsonStr # <<>>
        /\ jsonStr[1] = LB
        /\ jsonStr[Len(jsonStr)] = RB

\* C29 as amended: a scan ends without the unbalanced-brace error exactly if
\* the depth is zero when it stops, which is the case either at a closing
\* brace outside quoted strings that brought the depth to zero (the slice is
\* then the text up to and including that brace, whatever its first
\* character) or at the end of a text that left the depth at zero without
\* such a stop, as a text without braces or one that closes a brace before
\* it opens one (the slice is then empty). The depth can be below zero
\* during the scan. An empty slice is never parsed with success.
C29_NoErrorIffDepthZeroAtStop ==
    (hasMarker /\ spc \in {"unmarshal", "done"}) =>
        /\ scanRes # "unbalanced" <=> braceCount = 0
        /\ braceCount = 0 =>
            \/ /\ i <= Len(tail) /\ tail[i] = RB
               /\ jsonEndIndex = i + 1
               /\ jsonStr = SubSeq(tail, jsonStartIndex, i)
            \/ /\ i > Len(tail)
               /\ jsonStr = <<>>
               /\ scanRes # "ok"

\* the text }{ : the depth goes to -1 and back to 0, no brace error, an empty
\* slice, and the parse fails
C29_Witness ==
    /\ spc = "done"
    /\ hasMarker
    /\ tail = <<RB, LB>>
    /\ braceCount = 0
    /\ jsonStr = <<>>
    /\ scanRes = "unmarshalError"

--------------------------------------------------------------------------
(* DownloadSources: the per-person citation lists and the run-wide index  *)

MaxSrcPersons == 3
MaxCites == 2

PersonPool == <<"P1", "P2", "P3", "P4">>

CitationIDs == {"C100", "C200"}

\* the citations whose PersonSourceDetail carries a RecordImageUrl
ImageCitations == {"C100"}

EmptyStr == <<>>

\* the PersonSourceDetail every payload that lists citation cid carries
PSD(cid) ==
    [CitationId     |-> cid,
     DatabaseId     |-> <<"db", cid>>,
     RecordId       |-> <<"rec", cid>>,
     SourceId       |-> <<"src", cid>>,
     Title          |-> <<"title", cid>>,
     RecordImageUrl |-> IF cid \in ImageCitations THEN <<"img", cid>> ELSE EmptyStr]

\* the citation IDs of a payload's facts, in order (ExtractCitationIDs per fact)
CiteSeqs == UNION {[1..n -> CitationIDs] : n \in 0..MaxCites}

\* a researchData with facts: the references and the citations PersonSources lists
ResearchDatas == [cites : CiteSeqs, sources : SUBSET CitationIDs]

SrcRosters ==
    {SubSeq(PersonPool, 1, n) :
        n \in 0..(IF MaxSrcPersons < Len(PersonPool) THEN MaxSrcPersons ELSE Len(PersonPool))}

Range(f) == {f[x] : x \in DOMAIN f}

\* f with key k set to v (a Go map assignment)
Put(f, k, v) == [x \in (DOMAIN f) \cup {k} |-> IF x = k THEN v ELSE f[x]]

Count(f, k) == IF k \in DOMAIN f THEN f[k] ELSE 0

\* a file of the output directory
File(path, content) == [path |-> path, content |-> content]

\* os.WriteFile: the file at path now holds content
Stored(files, path, content) == {f \in files : f.path # path} \cup {File(path, content)}

\* what DownloadSources leaves alone apart from the media directory
notSrcDisk == <<scanVars, infVars, runVars, facVars, rerunVars, sesVars, callVars,
                mPc, mIdx, mItems, mPos, mFiles, mCalls, mediaIndex, totalDownloaded>>

SrcInit ==
    /\ FirstRun
    /\ CallIdle
    /\ SesIdle
    /\ MedIdle
    /\ ScanIdle
    /\ InfIdle
    /\ RunIdle
    /\ FacIdle
    /\ srcPc = "count"
    /\ sRoster = <<>>
    /\ sIdx = 0
    /\ sData = NoResearchData
    /\ sPos = 0
    /\ sCitationIDs = <<>>
    /\ downloadedSources = <<>>
    /\ peopleIndex = <<>>
    /\ dsCalls = <<>>
    /\ imgCalls = <<>>
    /\ imgFailed = {}
    /\ refLog = <<>>
    /\ sWarnings = {}
    /\ srcResult = "none"

\* fetchTreePersons: GetPersonsCount fails
SrcCountFail ==
    /\ srcPc = "count"
    /\ srcPc' = "done"
    /\ srcResult' = "countError"
    /\ UNCHANGED <<sRoster, sIdx, sData, sPos, sCitationIDs, downloadedSources, peopleIndex,
                   dsCalls, imgCalls, imgFailed, refLog, sWarnings>>
    /\ UNCHANGED notSrc

\* fetchTreePersons: the count is read, downloadAllPersons fails on some page
SrcListFail ==
    /\ srcPc = "count"
    /\ srcPc' = "done"
    /\ srcResult' = "listError"
    /\ UNCHANGED <<sRoster, sIdx, sData, sPos, sCitationIDs, downloadedSources, peopleIndex,
                   dsCalls, imgCalls, imgFailed, refLog, sWarnings>>
    /\ UNCHANGED notSrc

\* fetchTreePersons returns the roster; downloadedSources is created empty
SrcListOk ==
    /\ srcPc = "count"
    /\ \E r \in SrcRosters : sRoster' = r
    /\ srcPc' = "person"
    /\ sIdx' = 1
    /\ downloadedSources' = <<>>
    /\ UNCHANGED <<sData, sPos, sCitationIDs, peopleIndex,
                   dsCalls, imgCalls, imgFailed, refLog, sWarnings, srcResult>>
    /\ UNCHANGED notSrc

\* processPersonForSources: GetPersonFactsFromHTML fails, processAllPersons logs and continues
SrcFactsErr ==
    /\ srcPc = "person"
    /\ sIdx <= Len(sRoster)
    /\ sWarnings' = sWarnings \cup {sRoster[sIdx]}
    /\ sIdx' = sIdx + 1
    /\ UNCHANGED <<srcPc, sRoster, sData, sPos, sCitationIDs, downloadedSources, peopleIndex,
                   dsCalls, imgCalls, imgFailed, refLog, srcResult>>
    /\ UNCHANGED notSrc

\* processPersonForSources: researchData == nil || len(researchData.PersonFacts) == 0
SrcFactsNone ==
    /\ srcPc = "person"
    /\ sIdx <= Len(sRoster)
    /\ sIdx' = sIdx + 1
    /\ UNCHANGED <<srcPc, sRoster, sData, sPos, sCitationIDs, downloadedSources, peopleIndex,
                   dsCalls, imgCalls, imgFailed, refLog, sWarnings, srcResult>>
    /\ UNCHANGED notSrc

\* processPersonForSources: facts found, processFacts starts
SrcFactsOk ==
    /\ srcPc = "person"
    /\ sIdx <= Len(sRoster)
    /\ \E d \in ResearchDatas : sData' = d
    /\ srcPc' = "facts"
    /\ sPos' = 1
    /\ sCitationIDs' = <<>>
    /\ UNCHANGED <<sRoster, sIdx, downloadedSources, peopleIndex,
                   dsCalls, imgCalls, imgFailed, refLog, sWarnings, srcResult>>
    /\ UNCHANGED notSrc

\* a download that never consults the index
NeedsDownloadAlways(index, cid) == TRUE

\* if _, ok := downloadedSources[cid]; !ok
NeedsDownload(index, cid) == cid \notin DOMAIN index

ImageOutcomes == {"ok", "downloadFailed", "saveFailed"}

\* DownloadAndSaveRecordImage: the path it returns ("" on any failure)
LocalPath(cid, outcome) == IF outcome = "ok" THEN <<"media", cid>> ELSE EmptyStr

\* DownloadAndSaveRecordImage: the file it writes, mediaDir/<cid>_<name>
RecordImagePath(cid) == LocalPath(cid, "ok")

\* a downloadSource that gives the citation up when its image cannot be had
MaterializesOnlyWithImage(found, usesImage, outcome) ==
    found /\ ~(usesImage /\ outcome # "ok")

\* downloadSource returns nil exactly when personSourcesMap lacks the citation
Materializes(found, usesImage, outcome) == found

\* downloadSource, metadata found: the FactEditData it returns
SourceData(psd, usesImage, outcome) ==
    [CitationID         |-> psd.CitationId,
     DatabaseID         |-> psd.DatabaseId,
     RecordID           |-> psd.RecordId,
     SourceID           |-> psd.SourceId,
     CitationTitle      |-> psd.Title,
     RecordImageUrl     |-> psd.RecordImageUrl,
     LocalMediaFilePath |-> IF usesImage THEN LocalPath(psd.CitationId, outcome) ELSE EmptyStr]

\* processFacts: one citation reference of the person's facts
SrcProcessCitation ==
    /\ srcPc = "facts"
    /\ sPos <= Len(sData.cites)
    /\ LET cid   == sData.cites[sPos]
           dup   == cid \in Range(sCitationIDs)          \* uniqueCitationIDsForPerson[cid]
           need  == NeedsDownload(downloadedSources, cid)
           found == cid \in sData.sources                \* personSourcesMap[cid]
           uses  == found /\ PSD(cid).RecordImageUrl # EmptyStr
       IN
       IF dup
       THEN /\ sPos' = sPos + 1
            /\ UNCHANGED <<sCitationIDs, downloadedSources, dsCalls, imgCalls, imgFailed, refLog,
                           disk>>
       ELSE \E outcome \in (IF need /\ uses THEN ImageOutcomes ELSE {"none"}) :
            LET stored == need /\ Materializes(found, uses, outcome) IN
            /\ sPos' = sPos + 1
            /\ sCitationIDs' = Append(sCitationIDs, cid)
            /\ dsCalls' = IF need THEN Put(dsCalls, cid, Count(dsCalls, cid) + 1) ELSE dsCalls
            /\ imgCalls' = IF need /\ uses THEN Put(imgCalls, cid, Count(imgCalls, cid) + 1)
                           ELSE imgCalls
            /\ imgFailed' = IF need /\ uses /\ outcome # "ok" THEN imgFailed \cup {cid}
                            ELSE imgFailed
            /\ downloadedSources' = IF stored
                                    THEN Put(downloadedSources, cid,
                                             SourceData(PSD(cid), uses, outcome))
                                    ELSE downloadedSources
            /\ refLog' = Append(refLog, [person |-> sRoster[sIdx], cid |-> cid,
                                         lookup |-> ~need, found |-> found])
            /\ disk' = IF need /\ uses /\ outcome = "ok"
                       THEN Stored(disk, RecordImagePath(cid), "new")
                       ELSE disk
    /\ UNCHANGED <<srcPc, sRoster, sIdx, sData, peopleIndex, sWarnings, srcResult>>
    /\ UNCHANGED notSrcDisk

\* processFacts returns; savePersonSourceIndex when the person has citations
SrcPersonDone ==
    /\ srcPc = "facts"
    /\ sPos > Len(sData.cites)
    /\ peopleIndex' = IF Len(sCitationIDs) > 0
                      THEN Put(peopleIndex, sRoster[sIdx], sCitationIDs)
                      ELSE peopleIndex
    /\ sIdx' = sIdx + 1
    /\ srcPc' = "person"
    /\ UNCHANGED <<sRoster, sData, sPos, sCitationIDs, downloadedSources,
                   dsCalls, imgCalls, imgFailed, refLog, sWarnings, srcResult>>
    /\ UNCHANGED notSrc

\* every person processed: saveDownloadedSources, summary, return nil
SrcSave ==
    /\ srcPc = "person"
    /\ sIdx > Len(sRoster)
    /\ srcPc' = "done"
    /\ srcResult' = "ok"
    /\ UNCHANGED <<sRoster, sIdx, sData, sPos, sCitationIDs, downloadedSources, peopleIndex,
                   dsCalls, imgCalls, imgFailed, refLog, sWarnings>>
    /\ UNCHANGED notSrc

SrcNext ==
    \/ SrcCountFail
    \/ SrcListFail
    \/ SrcListOk
    \/ SrcFactsErr
    \/ SrcFactsNone
    \/ SrcFactsOk
    \/ SrcProcessCitation
    \/ SrcPersonDone
    \/ SrcSave

SpecSources == SrcInit /\ [][SrcNext]_vars

\* the media directory after an earlier run that saved the record image of
\* some of the citations
PriorImageDisks == {{File(RecordImagePath(cid), "old") : cid \in saved} : saved \in SUBSET ImageCitations}

\* DownloadSources run again on the output directory of an earlier run
SrcRerunInit ==
    /\ FirstRun
    /\ CallIdle
    /\ SesIdle
    /\ ScanIdle /\ InfIdle /\ RunIdle /\ FacIdle
    /\ mPc = "idle" /\ mIdx = 0 /\ mItems = <<>> /\ mPos = 0 /\ mFiles = <<>>
    /\ mCalls = <<>> /\ mediaIndex = {} /\ totalDownloaded = 0
    /\ disk \in PriorImageDisks
    /\ srcPc = "count"
    /\ sRoster = <<>>
    /\ sIdx = 0
    /\ sData = NoResearchData
    /\ sPos = 0
    /\ sCitationIDs = <<>>
    /\ downloadedSources = <<>>
    /\ peopleIndex = <<>>
    /\ dsCalls = <<>>
    /\ imgCalls = <<>>
    /\ imgFailed = {}
    /\ refLog = <<>>
    /\ sWarnings = {}
    /\ srcResult = "none"

SpecSourcesRerun == SrcRerunInit /\ [][SrcNext]_vars

\* positions of refLog that reference citation cid
RefsOf(cid) == {k \in DOMAIN refLog : refLog[k].cid = cid}

\* the references at which downloadSource built and stored the citation
Materializations(cid) == {k \in RefsOf(cid) : ~refLog[k].lookup /\ refLog[k].found}

\* the entities whose facts reference cid
Citers(cid) == {refLog[k].person : k \in RefsOf(cid)}

\* the citation list an entity ends up with (still in hand, or already saved)
ListedBy(p) ==
    IF srcPc = "facts" /\ sRoster[sIdx] = p THEN Range(sCitationIDs)
    ELSE IF p \in DOMAIN peopleIndex THEN Range(peopleIndex[p])
    ELSE {}

\* C7 as stated: at the end of a run every citation ID referenced by two or
\* more entities has had exactly one downloadSource call.
C7_ExactlyOneDownloadSourceCall ==
    srcPc = "done" =>
        \A cid \in CitationIDs :
            Cardinality(Citers(cid)) >= 2 => Count(dsCalls, cid) = 1

\* C7 as amended: a citation is materialized (stored in the index by
\* downloadSource, with at most one image request) at most once, and exactly
\* once as soon as a referencing entity's payload carries its metadata; every
\* reference after that is a pure lookup.  A downloadSource call that finds no
\* metadata stores nothing, so the next entity's reference calls it again.
C7_MaterializedOnce ==
    \A cid \in CitationIDs :
        /\ Cardinality(Materializations(cid)) <= 1
        /\ Count(imgCalls, cid) <= Cardinality(Materializations(cid))
        /\ (cid \in DOMAIN downloadedSources) <=> (Materializations(cid) # {})
        /\ (\E k \in RefsOf(cid) : refLog[k].found) => Cardinality(Materializations(cid)) = 1
        /\ \A k \in Materializations(cid) :
              \A j \in RefsOf(cid) : j > k => refLog[j].lookup
        /\ Count(dsCalls, cid) = Cardinality({k \in RefsOf(cid) : ~refLog[k].lookup})

\* a finished run in which two entities cite C100: the first reference
\* materialized it (one call, one image request), the second only looked it up
C7_Witness ==
    /\ srcPc = "done"
    /\ Cardinality(Citers("C100")) >= 2
    /\ Cardinality(Materializations("C100")) = 1
    /\ Count(dsCalls, "C100") = 1
    /\ Count(imgCalls, "C100") = 1
    /\ \E j \in RefsOf("C100") : refLog[j].lookup

\* C17: while the record image a citation got in an earlier run is in the
\* media directory, a run of DownloadSources requests no record image for
\* that citation.
C17_SavedImageIsNotRequestedAgain ==
    [][\A cid \in ImageCitations :
          File(RecordImagePath(cid), "old") \in disk =>
              Count(imgCalls', cid) = Count(imgCalls, cid)]_vars

\* C8: a citation whose image download (or save) failed is in the run-wide
\* index with its metadata and no local asset path, every entity that cites it
\* lists its ID, and the run goes on to end without an error.
C8_ImageFailureKeepsCitation ==
    \A cid \in imgFailed :
        /\ cid \in DOMAIN downloadedSources
        /\ downloadedSources[cid].CitationID = cid
        /\ downloadedSources[cid].CitationTitle = PSD(cid).Title
        /\ downloadedSources[cid].DatabaseID = PSD(cid).DatabaseId
        /\ downloadedSources[cid].RecordID = PSD(cid).RecordId
        /\ downloadedSources[cid].RecordImageUrl = PSD(cid).RecordImageUrl
        /\ downloadedSources[cid].LocalMediaFilePath = EmptyStr
        /\ \A p \in Citers(cid) : cid \in ListedBy(p)
        /\ srcResult \in {"none", "ok"}
        /\ srcPc = "done" => srcResult = "ok"

\* a finished run in which C100's image failed and two entities cite C100
C8_Witness ==
    /\ srcPc = "done"
    /\ srcResult = "ok"
    /\ "C100" \in imgFailed
    /\ Cardinality(Citers("C100")) >= 2
    /\ \A p \in Citers("C100") : "C100" \in Range(peopleIndex[p])
    /\ downloadedSources["C100"].LocalMediaFilePath = EmptyStr

--------------------------------------------------------------------------
(* Persons, events, relationships (pkg/ancestry/api.go, download_tree.go) *)

\* Event.Type: a string, kept as a tuple of its words; "" is the empty tuple
EmptyType == <<>>
Birth == <<"Birth">>
Death == <<"Death">>
Marriage == <<"Marriage">>

\* Event.Date (interface{}): nil, a JSON string or a JSON number
NilDate == <<>>
StrDate(txt) == <<"string", txt>>
NumDate(txt) == <<"number", txt>>

\* fmt.Sprintf("%v", date): a string and a number print alike
DateStr(d) == d[2]

\* getRelationshipGenderLabel
getRelationshipGenderLabel(gender, maleLabel, femaleLabel, neutralLabel) ==
    IF gender = "m" THEN maleLabel
    ELSE IF gender = "f" THEN femaleLabel
    ELSE neutralLabel

\* fmt.Sprintf("%s of %s %s", evt.Type, genderLabel, name)
Label(kind, genderLabel, name) == kind \o <<"of", genderLabel, name>>

\* buildPersonMap: the index personMap[id] points at (the last one), 0 if none
PersonIndex(persons, id) ==
    LET hits == {k \in DOMAIN persons : persons[k].id = id} IN
    IF hits = {} THEN 0 ELSE CHOOSE k \in hits : \A j \in hits : j <= k

RECURSIVE Flatten(_)
\* the concatenation of a sequence of sequences
Flatten(ss) == IF Len(ss) = 0 THEN <<>> ELSE Head(ss) \o Flatten(Tail(ss))

\* writes that take every type beginning with "Birth" or "Death", an inferred
\* label included, for a birth or a death
EventWritesOfLabels(p, kinds, genderLabel) ==
    LET sel == SelectSeq(p.events, LAMBDA e :
                   Len(e.Type) > 0 /\ <<e.Type[1]>> \in kinds /\ e.Date # NilDate) IN
    [k \in DOMAIN sel |-> <<DateStr(sel[k].Date), Label(sel[k].Type, genderLabel, p.name)>>]

\* the map writes one relative's events cause: <<dateStr, label>> in event order
EventWrites(p, kinds, genderLabel) ==
    LET sel == SelectSeq(p.events, LAMBDA e : e.Type \in kinds /\ e.Date # NilDate) IN
    [k \in DOMAIN sel |-> <<DateStr(sel[k].Date), Label(sel[k].Type, genderLabel, p.name)>>]

\* the writes of a list of references, resolved through personMap
RefWrites(refs, persons, kinds, maleLabel, femaleLabel, neutralLabel) ==
    Flatten([k \in DOMAIN refs |->
        LET at == PersonIndex(persons, refs[k].PersonID) IN
        IF at = 0 THEN <<>>
        ELSE EventWrites(persons[at], kinds,
                 getRelationshipGenderLabel(persons[at].gender, maleLabel, femaleLabel, neutralLabel))])

\* processChildEvents
processChildEvents(childRefs, persons) ==
    RefWrites(childRefs, persons, {Birth, Death}, "son", "daughter", "child")

\* a hasSharedParent that takes any two persons with parents for siblings
hasSharedParentAlways(myParents, theirParents) == TRUE

\* hasSharedParent
hasSharedParent(myParents, theirParents) ==
    \E a \in DOMAIN myParents : \E b \in DOMAIN theirParents :
        myParents[a].PersonID = theirParents[b].PersonID

\* processSiblingEvents
processSiblingEvents(personID, rels, persons, relMap) ==
    IF Len(rels.Parents) = 0 THEN <<>>
    ELSE Flatten([k \in DOMAIN persons |->
        LET other == persons[k] IN
        IF other.id = personID THEN <<>>
        ELSE IF other.id \notin DOMAIN relMap THEN <<>>
        ELSE IF Len(relMap[other.id].Parents) = 0 THEN <<>>
        ELSE IF hasSharedParent(rels.Parents, relMap[other.id].Parents)
             THEN EventWrites(other, {Birth, Death},
                      getRelationshipGenderLabel(other.gender, "brother", "sister", "sibling"))
             ELSE <<>>])

\* parents and spouses that contribute their births as well
RelativeKindsWithBirth == {Birth, Death}

\* the event kinds a parent or spouse contributes
RelativeKinds == {Death}

\* processRelativeDeathEvents
processRelativeDeathEvents(relativeRefs, persons, maleLabel, femaleLabel, neutralLabel) ==
    RefWrites(relativeRefs, persons, RelativeKinds, maleLabel, femaleLabel, neutralLabel)

\* an inferEventTypes that processes the spouses before the parents
MapWritesSpousesEarly(personID, rels, persons, relMap) ==
    processChildEvents(rels.Children, persons)
    \o processSiblingEvents(personID, rels, persons, relMap)
    \o processRelativeDeathEvents(rels.Spouses, persons, "husband", "wife", "spouse")
    \o processRelativeDeathEvents(rels.Parents, persons, "father", "mother", "parent")

\* the writes to dateToEventType for one person, in the order inferEventTypes makes them
MapWrites(personID, rels, persons, relMap) ==
    processChildEvents(rels.Children, persons)
    \o processSiblingEvents(personID, rels, persons, relMap)
    \o processRelativeDeathEvents(rels.Parents, persons, "father", "mother", "parent")
    \o processRelativeDeathEvents(rels.Spouses, persons, "husband", "wife", "spouse")

\* dateToEventType[dateStr] after the writes: found, and the last label written
Found(writes, dateStr) == \E k \in DOMAIN writes : writes[k][1] = dateStr

Lookup(writes, dateStr) ==
    LET hits == {k \in DOMAIN writes : writes[k][1] = dateStr}
        last == CHOOSE k \in hits : \A j \in hits : j <= k
    IN writes[last][2]

\* an updateEmptyEvents that retypes whatever the map has a label for
CanInferAnyType(e) == e.Date # NilDate

\* updateEmptyEvents: the events it looks up
CanInfer(e) == e.Type = EmptyType /\ e.Date # NilDate

\* updateEmptyEvents
updateEmptyEvents(events, writes) ==
    [j \in DOMAIN events |->
        IF CanInfer(events[j]) /\ Found(writes, DateStr(events[j].Date))
        THEN [events[j] EXCEPT !.Type = Lookup(writes, DateStr(events[j].Date))]
        ELSE events[j]]

\* one iteration of inferEventTypes' loop, for persons[k]
InferOne(persons, relMap, k) ==
    LET personID == persons[k].id IN
    IF personID \notin DOMAIN relMap THEN persons
    ELSE [persons EXCEPT ![k].events =
            updateEmptyEvents(persons[k].events,
                MapWrites(personID, relMap[personID], persons, relMap))]

RECURSIVE InferFrom(_, _, _)
InferFrom(persons, relMap, k) ==
    IF k > Len(persons) THEN persons
    ELSE InferFrom(InferOne(persons, relMap, k), relMap, k + 1)

\* inferEventTypes: persons as the loop leaves them
inferEventTypes(persons, relMap) == InferFrom(persons, relMap, 1)

--------------------------------------------------------------------------
(* inferEventTypes applied to bounded populations *)

MaxInferEvents == 3
MaxEdges == 2

D1 == StrDate("1950")
D2 == StrDate("1960")

Event(type, date) == [Type |-> type, Date |-> date, Place |-> "", Description |-> ""]

InferEventPool ==
    {Event(EmptyType, D1), Event(Birth, D1), Event(Death, D1), Event(Death, D2),
     Event(Marriage, D1)}

InferIDs == <<"P1", "P2", "P3">>

\* Person.GetDisplayName and Person.Gender of the catalog entries
NameOf(id) ==
    CASE id = "P1" -> "N1" [] id = "P2" -> "N2" [] id = "P3" -> "N3"
      [] id = "P4" -> "N4" [] id = "P5" -> "N5" [] OTHER -> "N6"

GenderOf(id) ==
    CASE id \in {"P1", "P4"} -> "m" [] id \in {"P2", "P5"} -> "f" [] OTHER -> ""

\* events handed out to the roster: <<owner index, event>>, owners in roster order
Placements ==
    {pl \in UNION {[1..n -> (DOMAIN InferIDs) \X InferEventPool] : n \in 0..MaxInferEvents} :
        \A k \in 1..(Len(pl) - 1) : pl[k][1] <= pl[k + 1][1]}

EventsOf(pl, owner) ==
    LET mine == SelectSeq(pl, LAMBDA x : x[1] = owner) IN
    [k \in DOMAIN mine |-> mine[k][2]]

\* family edges <<from, category, to>>
Categories == {"Parents", "Spouses", "Children"}

EdgePool ==
    {e \in (DOMAIN InferIDs) \X Categories \X (DOMAIN InferIDs) : e[1] # e[3]}

EdgeSets ==
    UNION {{{f[k] : k \in 1..n} : f \in [1..n -> EdgePool]} : n \in 0..MaxEdges}

RelationRef(id) == [PersonID |-> id, Name |-> NameOf(id)]

RefsFrom(E, from, cat) ==
    LET to == SelectSeq([k \in DOMAIN InferIDs |-> k], LAMBDA k : <<from, cat, k>> \in E) IN
    [k \in DOMAIN to |-> RelationRef(InferIDs[to[k]])]

\* the relationships map: persons whose family view failed have no entry
RelationsOf(E, failed) ==
    [id \in {InferIDs[k] : k \in DOMAIN InferIDs} \ failed |->
        LET from == CHOOSE k \in DOMAIN InferIDs : InferIDs[k] = id IN
        [PersonID |-> id, Name |-> NameOf(id),
         Parents |-> RefsFrom(E, from, "Parents"),
         Spouses |-> RefsFrom(E, from, "Spouses"),
         Children |-> RefsFrom(E, from, "Children")]]

InferInit ==
    /\ FirstRun
    /\ CallIdle
    /\ SesIdle
    /\ MedIdle
    /\ ScanIdle
    /\ SrcIdle
    /\ RunIdle
    /\ FacIdle
    /\ infPc = "ready"
    /\ \E pl \in Placements :
        inPersons = [k \in DOMAIN InferIDs |->
            [id |-> InferIDs[k], name |-> NameOf(InferIDs[k]),
             gender |-> GenderOf(InferIDs[k]), events |-> EventsOf(pl, k)]]
    /\ \E E \in EdgeSets : \E failed \in SUBSET {InferIDs[1]} :
        inRels = RelationsOf(E, failed)
    /\ outPersons = <<>>

\* the call inferEventTypes(allPersons, relationships)
Infer ==
    /\ infPc = "ready"
    /\ outPersons' = inferEventTypes(inPersons, inRels)
    /\ infPc' = "done"
    /\ UNCHANGED <<inPersons, inRels>>
    /\ UNCHANGED notInf

SpecInfer == InferInit /\ [][Infer]_vars

--------------------------------------------------------------------------
(* inferEventTypes applied to one family: P1 with a child P2, a sibling   *)
(* P3 through the shared parent P4, and a spouse P5                       *)

Kin == <<"P1", "P2", "P3", "P4", "P5">>

\* a date that is the empty JSON string
EmptyDate == StrDate("")

Noted(evt) == [evt EXCEPT !.Place = "Salem", !.Description = "note"]

\* what a person of the family may carry: nothing, or one event
KinEventLists ==
    {<<>>} \cup
    {<<evt>> : evt \in {Noted(Event(EmptyType, D1)), Event(Birth, D1), Event(Death, D1),
                        Event(EmptyType, EmptyDate), Event(Death, EmptyDate),
                        Event(EmptyType, NilDate), Event(Death, NilDate)}}

Refs(ids) == [k \in DOMAIN ids |-> RelationRef(ids[k])]

Relationship(id, parents, spouses, children) ==
    [PersonID |-> id, Name |-> NameOf(id),
     Parents |-> Refs(parents), Spouses |-> Refs(spouses), Children |-> Refs(children)]

\* the relationships buildRelationships leaves for the family
KinRelationships ==
    [id \in {Kin[k] : k \in DOMAIN Kin} |->
        CASE id = "P1" -> Relationship(id, <<"P4">>, <<"P5">>, <<"P2">>)
          [] id = "P2" -> Relationship(id, <<"P1", "P5">>, <<>>, <<>>)
          [] id = "P3" -> Relationship(id, <<"P4">>, <<>>, <<>>)
          [] id = "P4" -> Relationship(id, <<>>, <<>>, <<"P1", "P3">>)
          [] OTHER -> Relationship(id, <<>>, <<"P1">>, <<"P2">>)]

KinInit ==
    /\ FirstRun
    /\ CallIdle
    /\ SesIdle
    /\ MedIdle
    /\ ScanIdle
    /\ SrcIdle
    /\ RunIdle
    /\ FacIdle
    /\ infPc = "ready"
    /\ \E carried \in [DOMAIN Kin -> KinEventLists] :
        inPersons = [k \in DOMAIN Kin |->
            [id |-> Kin[k], name |-> NameOf(Kin[k]),
             gender |-> GenderOf(Kin[k]), events |-> carried[k]]]
    /\ inRels = KinRelationships
    /\ outPersons = <<>>

SpecKin == KinInit /\ [][Infer]_vars

--------------------------------------------------------------------------
(* fetchTreeData: count probe, catalog pages, relationships, facts,       *)
(* inference. Every catalog entry of the model carries an ID.             *)

MaxPages == 2

\* downloadAllPersons: limit := 100
limit == 100

\* buildRelationships prints a failed family view only while i < 3
DebugLimit == 3

\* the answers of GetPersonsCount: those at the page boundaries
TotalCounts ==
    {0} \cup UNION {{(k - 1) * limit + 1, k * limit} : k \in 1..MaxPages}

\* the upstream listing, page by page
RunPages == << <<"P1", "P2">>, <<"P3", "P4">>, <<"P5", "P6">> >>

\* what GetAllPersons may answer for page p: the page, or, after an insertion
\* upstream between two requests, a window that repeats the previous page's end
PageResponses(p) ==
    {RunPages[p]} \cup
    (IF p > 1 THEN {<<RunPages[p - 1][Len(RunPages[p - 1])], RunPages[p][1]>>} ELSE {})

\* FamilyMember.TGID["v"] that is not a string
NoTarget == "<none>"

FamilyMember(type, tgid) == [Type |-> type, TGID |-> tgid]

\* the Events of the catalog entry of id
CatalogEventsOf(id) ==
    CASE id = "P1" -> <<Event(Death, D1)>>
      [] id = "P3" -> <<Event(EmptyType, D1)>>
      [] id = "P4" -> <<Event(Marriage, D2)>>
      [] OTHER -> <<>>

\* the Family of id in its family view: P1 parent of P2, P2 parent of P3,
\* P4 parent of P5 and P6
FamilyOf(id) ==
    CASE id = "P1" -> <<FamilyMember("C", "P2")>>
      [] id = "P2" -> <<FamilyMember("F", "P1"), FamilyMember("C", "P3")>>
      [] id = "P3" -> <<FamilyMember("M", "P2")>>
      [] id = "P4" -> <<FamilyMember("W", NoTarget), FamilyMember("C", "P5"),
                        FamilyMember("C", "P6")>>
      [] id = "P5" -> <<FamilyMember("F", "P4"), FamilyMember("M", "P9")>>
      [] OTHER -> <<FamilyMember("F", "P4"), FamilyMember("X", "P5")>>

\* the Events of id in its family view
FamilyViewEventsOf(id) ==
    CASE id = "P1" -> <<Event(Death, D1)>>
      [] id = "P2" -> <<Event(Birth, D2), Event(Death, D1)>>
      [] id = "P4" -> <<Event(Death, D2)>>
      [] id = "P5" -> <<Event(Birth, D1)>>
      [] id = "P6" -> <<Event(EmptyType, D1), Event(EmptyType, D2)>>
      [] OTHER -> <<>>

CatalogIDs == UNION {{RunPages[p][k] : k \in DOMAIN RunPages[p]} : p \in DOMAIN RunPages}

CatalogPerson(id) ==
    [id |-> id, name |-> NameOf(id), gender |-> GenderOf(id),
     events |-> CatalogEventsOf(id), family |-> <<>>]

FamilyViewPerson(id) ==
    [id |-> id, name |-> NameOf(id), gender |-> GenderOf(id),
     events |-> FamilyViewEventsOf(id), family |-> FamilyOf(id)]

\* the family view of id: the focus person and those of its family in the tree
FamilyViewOf(id) ==
    LET fam == SelectSeq(FamilyOf(id), LAMBDA fm : fm.TGID \in CatalogIDs) IN
    [Persons |-> <<FamilyViewPerson(id)>> \o [k \in DOMAIN fam |-> CatalogPerson(fam[k].TGID)]]

\* a family view that lacks its focus person
FamilyViewWithoutFocus == [Persons |-> <<>>]

FamilyViewResponses(id) == {FamilyViewOf(id), FamilyViewWithoutFocus}

\* a target name that is left empty when the payload lacks the target
TargetNameOnlyFromPayload(targetID, fvPersons) ==
    IF PersonIndex(fvPersons, targetID) # 0
    THEN fvPersons[PersonIndex(fvPersons, targetID)].name
    ELSE ""

\* extractTargetIDAndName: targetName
TargetName(targetID, fvPersons) ==
    IF PersonIndex(fvPersons, targetID) # 0
    THEN fvPersons[PersonIndex(fvPersons, targetID)].name
    ELSE targetID

\* a switch whose default branch appends to the children
ListOfTypeWithDefault(type) ==
    CASE type \in {"F", "M"} -> "Parents"
      [] type \in {"H", "W"} -> "Spouses"
      [] OTHER -> "Children"

\* addFamilyMemberToRelationship: the list a FamilyMember.Type goes to
ListOfType(type) ==
    CASE type \in {"F", "M"} -> "Parents"
      [] type \in {"H", "W"} -> "Spouses"
      [] type = "C" -> "Children"
      [] OTHER -> "none"

\* processFamilyView
processFamilyView(personID, familyView) ==
    LET at == PersonIndex(familyView.Persons, personID) IN
    IF at = 0 THEN [ok |-> FALSE, rel |-> <<>>, events |-> <<>>]
    ELSE
      LET focusPerson == familyView.Persons[at]
          refs(list) ==
            LET fam == SelectSeq(focusPerson.family,
                          LAMBDA fm : fm.TGID # NoTarget /\ ListOfType(fm.Type) = list) IN
            [k \in DOMAIN fam |->
                [PersonID |-> fam[k].TGID, Name |-> TargetName(fam[k].TGID, familyView.Persons)]]
      IN [ok |-> TRUE,
          rel |-> [PersonID |-> personID, Name |-> focusPerson.name,
                   Parents |-> refs("Parents"), Spouses |-> refs("Spouses"),
                   Children |-> refs("Children")],
          events |-> focusPerson.events]

\* PersonFactDetail
Fact(typeString, title, date, place, description) ==
    [TypeString |-> typeString, Title |-> title, Date |-> date,
     Place |-> place, Description |-> description]

CustomEvent == <<"CustomEvent">>

\* researchData.PersonFacts of id's facts page (none for P1)
FactsOf(id) ==
    CASE id = "P2" -> <<Fact(Death, EmptyType, D1, "Boston", "")>>
      [] id = "P3" -> <<Fact(EmptyType, EmptyType, D1, "Salem", "")>>
      [] id = "P4" -> <<Fact(EmptyType, EmptyType, D2, "", "")>>
      [] id = "P5" -> <<Fact(CustomEvent, <<"Prison">>, D2, "", "theft"),
                        Fact(Birth, EmptyType, NumDate("1950"), "", "")>>
      [] id = "P6" -> <<Fact(EmptyType, EmptyType, D1, "", "note"),
                        Fact(EmptyType, EmptyType, D1, "", "")>>
      [] OTHER -> <<>>

\* fetchFactsForAllPersons: the events built from PersonFacts
FactEvents(facts) ==
    LET kept == SelectSeq(facts, LAMBDA f :
                    ~(f.TypeString = EmptyType /\ f.Place = "" /\ f.Description = "")) IN
    [k \in DOMAIN kept |->
        [Type |-> IF kept[k].TypeString = CustomEvent /\ kept[k].Title # EmptyType
                  THEN kept[k].Title ELSE kept[k].TypeString,
         Date |-> kept[k].Date,
         Place |-> kept[k].Place,
         Description |-> kept[k].Description]]

\* fetchTreeData: "Merge FamilyView events into persons"
MergeFamilyViewEvents(persons, eventsMap) ==
    [k \in DOMAIN persons |->
        IF persons[k].id \in DOMAIN eventsMap /\ Len(eventsMap[persons[k].id]) > 0
        THEN [persons[k] EXCEPT !.events = eventsMap[persons[k].id]]
        ELSE persons[k]]

Request(kind, arg, ok, ids) == [kind |-> kind, arg |-> arg, ok |-> ok, ids |-> ids]

\* downloadAllPersons: totalPages
totalPages == (totalCount + limit - 1) \div limit

Init ==
    /\ FirstRun
    /\ CallIdle
    /\ SesIdle
    /\ MedIdle
    /\ ScanIdle
    /\ SrcIdle
    /\ InfIdle
    /\ FacIdle
    /\ pc = "count" /\ totalCount = 0 /\ page = 0 /\ allPersons = <<>>
    /\ relationships = <<>> /\ familyViewEvents = <<>> /\ cur = 0
    /\ requests = <<>> /\ printed = {} /\ result = "none"

\* a GetPersonsCount failure that is swallowed, the roster taken to be empty
GetPersonsCountFailIgnored ==
    /\ pc = "count"
    /\ requests' = Append(requests, Request("count", 0, FALSE, <<>>))
    /\ pc' = "pages" /\ page' = 1
    /\ UNCHANGED <<totalCount, allPersons, relationships, familyViewEvents, cur, printed, result>>
    /\ UNCHANGED notRun

\* GetPersonsCount fails: fetchTreeData returns nil, nil, 0, err
GetPersonsCountFail ==
    /\ pc = "count"
    /\ requests' = Append(requests, Request("count", 0, FALSE, <<>>))
    /\ pc' = "done" /\ result' = "countError"
    /\ UNCHANGED <<totalCount, page, allPersons, relationships, familyViewEvents, cur, printed>>
    /\ UNCHANGED notRun

GetPersonsCountOk ==
    /\ pc = "count"
    /\ \E c \in TotalCounts : totalCount' = c
    /\ requests' = Append(requests, Request("count", 0, TRUE, <<>>))
    /\ pc' = "pages" /\ page' = 1
    /\ UNCHANGED <<allPersons, relationships, familyViewEvents, cur, printed, result>>
    /\ UNCHANGED notRun

\* GetAllPersons fails for the page: downloadAllPersons returns nil, err
GetAllPersonsFail ==
    /\ pc = "pages" /\ page <= totalPages
    /\ requests' = Append(requests, Request("page", page, FALSE, <<>>))
    /\ allPersons' = <<>>
    /\ pc' = "done" /\ result' = "pageError"
    /\ UNCHANGED <<totalCount, page, relationships, familyViewEvents, cur, printed>>
    /\ UNCHANGED notRun

GetAllPersonsOk ==
    /\ pc = "pages" /\ page <= totalPages
    /\ \E ids \in PageResponses(page) :
        /\ requests' = Append(requests, Request("page", page, TRUE, ids))
        /\ allPersons' = allPersons \o [k \in DOMAIN ids |-> CatalogPerson(ids[k])]
    /\ page' = page + 1
    /\ UNCHANGED <<pc, totalCount, relationships, familyViewEvents, cur, printed, result>>
    /\ UNCHANGED notRun

\* downloadAllPersons returns the roster; buildRelationships starts
DownloadedAllPersons ==
    /\ pc = "pages" /\ page > totalPages
    /\ pc' = "rels" /\ cur' = 1
    /\ UNCHANGED <<totalCount, page, allPersons, relationships, familyViewEvents,
                   requests, printed, result>>
    /\ UNCHANGED notRun

\* a buildRelationships that gives up on the first failed family view
GetFamilyViewFailEndsLoop ==
    /\ pc = "rels" /\ cur <= Len(allPersons)
    /\ requests' = Append(requests, Request("familyView", cur, FALSE, <<>>))
    /\ printed' = printed \cup {<<"familyView", allPersons[cur].name>>}
    /\ cur' = Len(allPersons) + 1
    /\ UNCHANGED <<pc, totalCount, page, allPersons, relationships, familyViewEvents, result>>
    /\ UNCHANGED notRun

\* GetFamilyView fails for persons[cur]
GetFamilyViewFail ==
    /\ pc = "rels" /\ cur <= Len(allPersons)
    /\ requests' = Append(requests, Request("familyView", cur, FALSE, <<>>))
    /\ printed' = IF cur - 1 < DebugLimit
                  THEN printed \cup {<<"familyView", allPersons[cur].name>>}
                  ELSE printed
    /\ cur' = cur + 1
    /\ UNCHANGED <<pc, totalCount, page, allPersons, relationships, familyViewEvents, result>>
    /\ UNCHANGED notRun

\* GetFamilyView answers for persons[cur]
GetFamilyViewOk ==
    /\ pc = "rels" /\ cur <= Len(allPersons)
    /\ \E familyView \in FamilyViewResponses(allPersons[cur].id) :
        LET personID == allPersons[cur].id
            got == processFamilyView(personID, familyView) IN
        /\ requests' = Append(requests, Request("familyView", cur, TRUE,
                            [k \in DOMAIN familyView.Persons |-> familyView.Persons[k].id]))
        /\ IF ~got.ok
           THEN UNCHANGED <<relationships, familyViewEvents>>
           ELSE /\ relationships' = Put(relationships, personID, got.rel)
                /\ familyViewEvents' = IF Len(got.events) > 0
                                       THEN Put(familyViewEvents, personID, got.events)
                                       ELSE familyViewEvents
    /\ cur' = cur + 1
    /\ UNCHANGED <<pc, totalCount, page, allPersons, printed, result>>
    /\ UNCHANGED notRun

\* an inference that runs with the merge, before the facts are fetched
BuiltRelationshipsAndInferred ==
    /\ pc = "rels" /\ cur > Len(allPersons)
    /\ allPersons' = inferEventTypes(MergeFamilyViewEvents(allPersons, familyViewEvents),
                                     relationships)
    /\ pc' = "facts" /\ cur' = 1
    /\ UNCHANGED <<totalCount, page, relationships, familyViewEvents, requests, printed, result>>
    /\ UNCHANGED notRun

\* buildRelationships returns; the family view events are merged in
BuiltRelationships ==
    /\ pc = "rels" /\ cur > Len(allPersons)
    /\ allPersons' = MergeFamilyViewEvents(allPersons, familyViewEvents)
    /\ pc' = "facts" /\ cur' = 1
    /\ UNCHANGED <<totalCount, page, relationships, familyViewEvents, requests, printed, result>>
    /\ UNCHANGED notRun

\* a failed facts fetch that ends the run with an error
GetPersonFactsFailAborts ==
    /\ pc = "facts" /\ cur <= Len(allPersons)
    /\ requests' = Append(requests, Request("facts", cur, FALSE, <<>>))
    /\ allPersons' = <<>>
    /\ pc' = "done" /\ result' = "factsError"
    /\ UNCHANGED <<totalCount, page, relationships, familyViewEvents, cur, printed>>
    /\ UNCHANGED notRun

\* fetchFactsForAllPersons, err != nil: a warning, and on to the next person
PersonFactsFailed ==
    /\ pc = "facts" /\ cur <= Len(allPersons)
    /\ requests' = Append(requests, Request("facts", cur, FALSE, <<>>))
    /\ printed' = printed \cup {<<"facts", allPersons[cur].name>>}
    /\ cur' = cur + 1
    /\ UNCHANGED <<pc, totalCount, page, allPersons, relationships, familyViewEvents, result>>

\* GetPersonFactsFromHTML fails for persons[cur]
GetPersonFactsFail ==
    /\ PersonFactsFailed
    /\ UNCHANGED notRun

\* fetchFactsForAllPersons, err == nil: the person's events are replaced
PersonFactsAnswered ==
    /\ pc = "facts" /\ cur <= Len(allPersons)
    /\ requests' = Append(requests, Request("facts", cur, TRUE, <<>>))
    /\ LET events == FactEvents(FactsOf(allPersons[cur].id)) IN
        allPersons' = IF Len(events) > 0
                      THEN [allPersons EXCEPT ![cur].events = events]
                      ELSE allPersons
    /\ cur' = cur + 1
    /\ UNCHANGED <<pc, totalCount, page, relationships, familyViewEvents, printed, result>>

\* GetPersonFactsFromHTML answers for persons[cur]
GetPersonFactsOk ==
    /\ PersonFactsAnswered
    /\ UNCHANGED notRun

\* an inference that is skipped when a run of the command came before
InferAndReturnOnlyOnce ==
    /\ pc = "facts" /\ cur > Len(allPersons)
    /\ allPersons' = IF runNo = 1 THEN inferEventTypes(allPersons, relationships) ELSE allPersons
    /\ pc' = "done" /\ result' = "ok"
    /\ UNCHANGED <<totalCount, page, relationships, familyViewEvents, cur, requests, printed>>
    /\ UNCHANGED notRun

\* fetchFactsForAllPersons returns; inferEventTypes runs; fetchTreeData returns
InferAndReturn ==
    /\ pc = "facts" /\ cur > Len(allPersons)
    /\ allPersons' = inferEventTypes(allPersons, relationships)
    /\ pc' = "done" /\ result' = "ok"
    /\ UNCHANGED <<totalCount, page, relationships, familyViewEvents, cur, requests, printed>>
    /\ UNCHANGED notRun

Next ==
    \/ GetPersonsCountFail
    \/ GetPersonsCountOk
    \/ GetAllPersonsFail
    \/ GetAllPersonsOk
    \/ DownloadedAllPersons
    \/ GetFamilyViewFail
    \/ GetFamilyViewOk
    \/ BuiltRelationships
    \/ GetPersonFactsFail
    \/ GetPersonFactsOk
    \/ InferAndReturn

Spec == Init /\ [][Next]_vars

--------------------------------------------------------------------------
(* fetchTreeData run twice against an upstream that answers the second    *)
(* run as it answered the first                                           *)

IsPrefix(s, t) == Len(s) <= Len(t) /\ SubSeq(t, 1, Len(s)) = s

\* the second run is sent the requests of the first and gets its answers
SameUpstream ==
    runNo = 2 =>
        /\ IsPrefix(requests', prior.requests)
        /\ pc' # "count" /\ result' # "countError" => totalCount' = prior.totalCount

\* what a finished run leaves behind
Outcome ==
    [requests |-> requests, totalCount |-> totalCount, allPersons |-> allPersons,
     relationships |-> relationships, result |-> result]

\* the command is started again
Restart ==
    /\ runNo = 1 /\ pc = "done"
    /\ prior' = Outcome
    /\ runNo' = 2
    /\ pc' = "count" /\ totalCount' = 0 /\ page' = 0 /\ allPersons' = <<>>
    /\ relationships' = <<>> /\ familyViewEvents' = <<>> /\ cur' = 0
    /\ requests' = <<>> /\ printed' = {} /\ result' = "none"
    /\ UNCHANGED <<scanVars, srcVars, infVars, facVars, medVars, sesVars, callVars>>

ReGetPersonsCountFail == GetPersonsCountFail /\ SameUpstream

ReGetPersonsCountOk == GetPersonsCountOk /\ SameUpstream

ReGetAllPersonsFail == GetAllPersonsFail /\ SameUpstream

ReGetAllPersonsOk == GetAllPersonsOk /\ SameUpstream

ReDownloadedAllPersons == DownloadedAllPersons /\ SameUpstream

ReGetFamilyViewFail == GetFamilyViewFail /\ SameUpstream

ReGetFamilyViewOk == GetFamilyViewOk /\ SameUpstream

ReBuiltRelationships == BuiltRelationships /\ SameUpstream

ReGetPersonFactsFail == GetPersonFactsFail /\ SameUpstream

ReGetPersonFactsOk == GetPersonFactsOk /\ SameUpstream

ReInferAndReturn == InferAndReturn /\ SameUpstream

RerunNext ==
    \/ ReGetPersonsCountFail
    \/ ReGetPersonsCountOk
    \/ ReGetAllPersonsFail
    \/ ReGetAllPersonsOk
    \/ ReDownloadedAllPersons
    \/ ReGetFamilyViewFail
    \/ ReGetFamilyViewOk
    \/ ReBuiltRelationships
    \/ ReGetPersonFactsFail
    \/ ReGetPersonFactsOk
    \/ ReInferAndReturn
    \/ Restart

SpecRerun == Init /\ [][RerunNext]_vars

--------------------------------------------------------------------------
(* One detail call: the body of fetchFactsForAllPersons' loop for one     *)
(* person - factsHTMLReq, the scan of GetPersonFactsFromHTML, and what    *)
(* the loop body does with the answer.                                    *)

MaxPageLen == 4
MaxGraphEvents == 1
MaxFacts == 2

\* factsHTMLReq: attempt <= 2
MaxAttempts == 2

\* factsHTMLReq: the timeouts of the two attempts and the sleep between them
FirstTimeout == 30
Cooldown == 30
SecondTimeout == 35

TimeoutOf(n) == IF n = 1 THEN FirstTimeout ELSE SecondTimeout

\* the text that follows the marker on the page
PageTexts == UNION {[1..n -> Chars] : n \in 0..MaxPageLen}

\* the events the person has when the detail call starts
GraphEventPool == {Event(Death, D1), Event(EmptyType, D1), Event(Birth, D2)}

GraphEventSeqs == UNION {[1..n -> GraphEventPool] : n \in 0..MaxGraphEvents}

Prison == <<"Prison">>

\* the facts a page may carry
FactPool ==
    {Fact(Death, EmptyType, D1, "Boston", ""),
     Fact(EmptyType, EmptyType, D1, "Salem", ""),
     Fact(EmptyType, EmptyType, D2, "", ""),
     Fact(CustomEvent, Prison, D2, "", "theft")}

FactSeqs == UNION {[1..n -> FactPool] : n \in 0..MaxFacts}

\* the text starts with an object json.Unmarshal accepts
Decodes(text) == Len(text) >= 2 /\ ValidJSON(SubSeq(text, 1, 2))

FactsInit ==
    /\ FirstRun
    /\ CallIdle
    /\ SesIdle
    /\ MedIdle
    /\ SrcIdle
    /\ InfIdle
    /\ RunIdle
    /\ hasMarker \in BOOLEAN
    /\ tail \in (IF hasMarker THEN PageTexts ELSE {<<>>})
    /\ spc = "idle" /\ i = 0 /\ braceCount = 0 /\ inString = FALSE /\ escaped = FALSE
    /\ jsonEndIndex = 0 /\ jsonStr = <<>> /\ scanRes = "none"
    /\ fPc = "request" /\ attempt = 1 /\ fLog = <<>>
    /\ fFacts \in (IF hasMarker /\ Decodes(tail) THEN FactSeqs ELSE {<<>>})
    /\ fGraph \in GraphEventSeqs
    /\ fEvents = fGraph
    /\ fWarned = FALSE

LogRequest(n, ok) == [op |-> "request", attempt |-> n, secs |-> TimeoutOf(n), ok |-> ok]
LogSleep == [op |-> "sleep", attempt |-> 0, secs |-> Cooldown, ok |-> TRUE]

\* a factsHTMLReq that tries again at once, with the timeout of the first attempt
FactsAttemptFailsHasty ==
    /\ fPc = "request"
    /\ fLog' = Append(fLog, LogRequest(1, FALSE))
    /\ IF attempt = MaxAttempts
       THEN fPc' = "failed" /\ attempt' = attempt
       ELSE fPc' = "request" /\ attempt' = attempt + 1
    /\ UNCHANGED <<fFacts, fGraph, fEvents, fWarned>>
    /\ UNCHANGED scanVars
    /\ UNCHANGED notFac

\* fetchFactsPageWithTimeout fails: on to the second attempt, or the error
FactsAttemptFails ==
    /\ fPc = "request"
    /\ fLog' = Append(fLog, LogRequest(attempt, FALSE))
    /\ IF attempt = MaxAttempts
       THEN fPc' = "failed" /\ attempt' = attempt
       ELSE fPc' = "cooldown" /\ attempt' = attempt + 1
    /\ UNCHANGED <<fFacts, fGraph, fEvents, fWarned>>
    /\ UNCHANGED scanVars
    /\ UNCHANGED notFac

\* the second iteration starts with time.Sleep
FactsCooldown ==
    /\ fPc = "cooldown"
    /\ fLog' = Append(fLog, LogSleep)
    /\ fPc' = "request"
    /\ UNCHANGED <<attempt, fFacts, fGraph, fEvents, fWarned>>
    /\ UNCHANGED scanVars
    /\ UNCHANGED notFac

\* fetchFactsPageWithTimeout answers: break, and the page is scanned
FactsAttemptSucceeds ==
    /\ fPc = "request"
    /\ fLog' = Append(fLog, LogRequest(attempt, TRUE))
    /\ fPc' = "scan"
    /\ spc' = "find"
    /\ UNCHANGED <<attempt, fFacts, fGraph, fEvents, fWarned>>
    /\ UNCHANGED <<hasMarker, tail, i, braceCount, inString, escaped, jsonEndIndex, jsonStr, scanRes>>
    /\ UNCHANGED notFac

\* what GetPersonFactsFromHTML returns to the loop body
FactsError == fPc = "failed" \/ (fPc = "scan" /\ scanRes \in {"unbalanced", "unmarshalError"})
FactsNoData ==
    fPc = "scan" /\ (scanRes = "noData" \/ (scanRes = "ok" /\ Len(fFacts) = 0))
FactsData == fPc = "scan" /\ scanRes = "ok" /\ Len(fFacts) > 0

\* a loop body that drops the person's events when the call fails
FactsHandleErrorDropsEvents ==
    /\ FactsError
    /\ fWarned' = TRUE
    /\ fEvents' = <<>>
    /\ fPc' = "next"
    /\ UNCHANGED <<attempt, fLog, fFacts, fGraph>>
    /\ UNCHANGED scanVars
    /\ UNCHANGED notFac

\* err != nil: the warning, continue
FactsHandleError ==
    /\ FactsError
    /\ fWarned' = TRUE
    /\ fPc' = "next"
    /\ UNCHANGED <<attempt, fLog, fFacts, fGraph, fEvents>>
    /\ UNCHANGED scanVars
    /\ UNCHANGED notFac

\* researchData == nil || len(researchData.PersonFacts) == 0: continue
FactsHandleNoData ==
    /\ FactsNoData
    /\ fPc' = "next"
    /\ UNCHANGED <<attempt, fLog, fFacts, fGraph, fEvents, fWarned>>
    /\ UNCHANGED scanVars
    /\ UNCHANGED notFac

\* the facts become events; they replace the person's events unless none is left
FactsHandleData ==
    /\ FactsData
    /\ fEvents' = IF Len(FactEvents(fFacts)) > 0 THEN FactEvents(fFacts) ELSE fEvents
    /\ fPc' = "next"
    /\ UNCHANGED <<attempt, fLog, fFacts, fGraph, fWarned>>
    /\ UNCHANGED scanVars
    /\ UNCHANGED notFac

FactsNext ==
    \/ FactsAttemptFails
    \/ FactsCooldown
    \/ FactsAttemptSucceeds
    \/ MarkerAbsent
    \/ MarkerFound
    \/ ScanStep
    \/ ScanEnd
    \/ Unbalanced
    \/ Slice
    \/ Unmarshal
    \/ FactsHandleError
    \/ FactsHandleNoData
    \/ FactsHandleData

SpecFacts == FactsInit /\ [][FactsNext]_vars

---------------------------------------------------------------------------
(* downloadAllMedia: the media of every roster person, saved under        *)
(* outputDir/media.  Texts are sequences of characters, so that           *)
(* sanitizeFilename is computed and not assumed.                           *)

MaxMediaItems == 2
NameCap == 50

\* U+0303, a combining mark (category Mn)
Tilde == "<combining tilde>"

\* U+00E3, a with tilde
ATilde == "<a with tilde>"

\* U+4E2D, a character without decomposition
Han == "<han character>"

\* what is left of a character that a byte slice cuts in two
Broken == "<part of a character>"

\* the UTF-8 length of a character
Width(c) == IF c \in {ATilde, Tilde} THEN 2 ELSE IF c = Han THEN 3 ELSE 1

\* len(s): one byte per character and the further bytes of the wide ones
ByteLen(s) ==
    Len(s) + Len(SelectSeq(s, LAMBDA c : Width(c) >= 2))
           + Len(SelectSeq(s, LAMBDA c : Width(c) >= 3))

\* s[:n], n bytes: the characters that fit, and the torn one if the cut
\* falls inside a character
Bytes(s, n) ==
    LET fits == {k \in 0..Len(s) : ByteLen(SubSeq(s, 1, k)) <= n}
        last == CHOOSE k \in fits : \A j \in fits : j <= k
        whole == SubSeq(s, 1, last)
    IN  IF last < Len(s) /\ ByteLen(whole) < n THEN Append(whole, Broken) ELSE whole

\* if len(name) > n { name = name[:n] }
Take(s, n) == IF ByteLen(s) > n THEN Bytes(s, n) ELSE s

Dashed == {"/", "\\", ":"}
Dropped == {"*", "?", "\"", "<", ">", "|", "."}

\* strings.ReplaceAll(name, " ", "_") and replacer.Replace, character by
\* character
Replace(name) ==
    LET left == SelectSeq(name, LAMBDA c : c \notin Dropped) IN
    [k \in DOMAIN left |->
        IF left[k] = " " THEN "_"
        ELSE IF left[k] \in Dashed THEN "-"
        ELSE left[k]]

sanitizeFilename(name) == Take(Replace(name), NameCap)

\* a URL is its path's extension and its query; only the path's part counts
getFileExtension(url) == IF url.ext = "" THEN ".jpg" ELSE url.ext

\* a person ID is its colon-separated segments
RECURSIVE Joined(_)
Joined(segments) ==
    IF Len(segments) = 1 THEN <<segments[1]>>
    ELSE <<segments[1], ":">> \o Joined(Tail(segments))

getShortPersonID(personID) == IF personID = <<>> THEN <<>> ELSE <<personID[1]>>

generateMediaFilename(personName, personID, mediaItem, idx, ext) ==
    LET safe == sanitizeFilename(personName)
        safeName == IF safe = <<>> THEN <<"u", "n", "k", "n", "o", "w", "n">> ELSE safe
        base == [name |-> safeName, id |-> getShortPersonID(personID),
                 seq |-> idx + 1, ext |-> ext]
    IN  IF mediaItem.Subcategory # <<>>
        THEN base @@ [labelled |-> TRUE, label |-> sanitizeFilename(mediaItem.Subcategory)]
        ELSE IF mediaItem.Title # <<>>
        THEN base @@ [labelled |-> TRUE, label |-> sanitizeFilename(mediaItem.Title)]
        ELSE base @@ [labelled |-> FALSE, label |-> <<>>]

getMediaSubdirectory(category) ==
    IF category = "document" \/ category = "story" THEN "documents" ELSE "photos"

FilePath(mediaItem, personID, personName, idx) ==
    [dir |-> getMediaSubdirectory(mediaItem.Category),
     file |-> generateMediaFilename(personName, Joined(personID), mediaItem, idx,
                                    getFileExtension(mediaItem.URL))]

MediaFileInfo(mediaItem, filePath) ==
    [FilePath |-> filePath, Title |-> mediaItem.Title, Category |-> mediaItem.Category,
     Subcategory |-> mediaItem.Subcategory]

MediaItem(category, subcategory, title, ext) ==
    [Category |-> category, Subcategory |-> subcategory, Title |-> title,
     URL |-> [ext |-> ext, query |-> "w=800"]]

MediaItemPool ==
    { MediaItem("photo", <<"P", "o", "r", "t">>, <<"A">>, ".png"),
      MediaItem("document", <<>>, <<"W", "i", "l", "l", " ", "?", "/", "1">>, ""),
      MediaItem("story", <<>>, <<>>, ".jpg") }

MediaLists == UNION {[1..n -> MediaItemPool] : n \in 0..MaxMediaItems}

MediaPerson(id, name) == [id |-> id, name |-> name]

\* the roster handed to downloadAllMedia: a person without an ID, then a
\* person without a name
MediaRoster ==
    << MediaPerson(<<>>, <<"B", " ", "L", ".">>),
       MediaPerson(<<"11", "1030", "7">>, <<>>) >>

GetPersonID(person) == IF person.id = <<>> THEN <<>> ELSE Joined(person.id)

DisplayNameOf(person) == IF person.name = <<>> THEN GetPersonID(person) ELSE person.name

\* every path a call on the roster can compute
MediaPaths ==
    { FilePath(item, MediaRoster[k].id, DisplayNameOf(MediaRoster[k]), idx) :
        item \in MediaItemPool, idx \in 0..(MaxMediaItems - 1),
        k \in {n \in DOMAIN MediaRoster : MediaRoster[n].id # <<>>} }

\* what earlier runs left in the media directory: files saved whole
PriorDisks == {{File(a, "old"), File(b, "old")} : a, b \in MediaPaths} \cup {{}}

MediaInit ==
    /\ FirstRun
    /\ CallIdle
    /\ SesIdle
    /\ ScanIdle /\ SrcIdle /\ InfIdle /\ RunIdle /\ FacIdle
    /\ mPc = "person" /\ mIdx = 1 /\ mItems = <<>> /\ mPos = 0 /\ mFiles = <<>>
    /\ disk \in PriorDisks
    /\ mCalls = <<>> /\ mediaIndex = {} /\ totalDownloaded = 0

MediaCurrent == MediaRoster[mIdx]

MediaItemPath == FilePath(mItems[mPos], MediaCurrent.id, DisplayNameOf(MediaCurrent), mPos - 1)

\* os.Stat(filePath) returns no error
AlreadyThereNever(files, path) == FALSE

AlreadyThere(files, path) == \E f \in files : f.path = path

MediaCall(existed, requested, wrote, failed) ==
    [person |-> GetPersonID(MediaCurrent), idx |-> mPos - 1, path |-> MediaItemPath,
     existed |-> existed, requested |-> requested, wrote |-> wrote, failed |-> failed]

MediaSkipPerson ==
    /\ mPc = "person" /\ mIdx <= Len(MediaRoster)
    /\ GetPersonID(MediaCurrent) = <<>>
    /\ mIdx' = mIdx + 1
    /\ UNCHANGED <<mPc, mItems, mPos, mFiles, disk, mCalls, mediaIndex, totalDownloaded>>
    /\ UNCHANGED notMed

MediaListFail ==
    /\ mPc = "person" /\ mIdx <= Len(MediaRoster)
    /\ GetPersonID(MediaCurrent) # <<>>
    /\ mIdx' = mIdx + 1
    /\ UNCHANGED <<mPc, mItems, mPos, mFiles, disk, mCalls, mediaIndex, totalDownloaded>>
    /\ UNCHANGED notMed

MediaListOk ==
    /\ mPc = "person" /\ mIdx <= Len(MediaRoster)
    /\ GetPersonID(MediaCurrent) # <<>>
    /\ \E mediaItems \in MediaLists :
        /\ mItems' = mediaItems
        /\ mPos' = 1
        /\ mFiles' = <<>>
        /\ mPc' = "items"
    /\ UNCHANGED <<mIdx, disk, mCalls, mediaIndex, totalDownloaded>>
    /\ UNCHANGED notMed

MediaItemExists ==
    /\ mPc = "items" /\ mPos <= Len(mItems)
    /\ AlreadyThere(disk, MediaItemPath)
    /\ mFiles' = Append(mFiles, MediaFileInfo(mItems[mPos], MediaItemPath))
    /\ mCalls' = Append(mCalls, MediaCall(TRUE, FALSE, FALSE, FALSE))
    /\ mPos' = mPos + 1
    /\ UNCHANGED <<mPc, mIdx, mItems, disk, mediaIndex, totalDownloaded>>
    /\ UNCHANGED notMed

MediaItemDownloadFails ==
    /\ mPc = "items" /\ mPos <= Len(mItems)
    /\ ~AlreadyThere(disk, MediaItemPath)
    /\ mCalls' = Append(mCalls, MediaCall(FALSE, TRUE, FALSE, TRUE))
    /\ mPos' = mPos + 1
    /\ UNCHANGED <<mPc, mIdx, mItems, mFiles, disk, mediaIndex, totalDownloaded>>
    /\ UNCHANGED notMed

\* os.WriteFile fails before or after it created the file
MediaItemSaveFails ==
    /\ mPc = "items" /\ mPos <= Len(mItems)
    /\ ~AlreadyThere(disk, MediaItemPath)
    /\ \E created \in BOOLEAN :
        /\ disk' = IF created THEN Stored(disk, MediaItemPath, "partial") ELSE disk
        /\ mCalls' = Append(mCalls, MediaCall(FALSE, TRUE, created, TRUE))
    /\ mPos' = mPos + 1
    /\ UNCHANGED <<mPc, mIdx, mItems, mFiles, mediaIndex, totalDownloaded>>
    /\ UNCHANGED notMed

MediaItemSaved ==
    /\ mPc = "items" /\ mPos <= Len(mItems)
    /\ ~AlreadyThere(disk, MediaItemPath)
    /\ disk' = Stored(disk, MediaItemPath, "new")
    /\ mFiles' = Append(mFiles, MediaFileInfo(mItems[mPos], MediaItemPath))
    /\ mCalls' = Append(mCalls, MediaCall(FALSE, TRUE, TRUE, FALSE))
    /\ mPos' = mPos + 1
    /\ totalDownloaded' = totalDownloaded + 1
    /\ UNCHANGED <<mPc, mIdx, mItems, mediaIndex>>
    /\ UNCHANGED notMed

PersonInfo == [PersonID |-> GetPersonID(MediaCurrent),
               PersonName |-> DisplayNameOf(MediaCurrent), Files |-> mFiles]

MediaPersonDone ==
    /\ mPc = "items" /\ mPos > Len(mItems)
    /\ mediaIndex' = IF Len(mFiles) > 0
                     THEN {e \in mediaIndex : e.PersonID # PersonInfo.PersonID} \cup {PersonInfo}
                     ELSE mediaIndex
    /\ mIdx' = mIdx + 1
    /\ mPc' = "person"
    /\ UNCHANGED <<mItems, mPos, mFiles, disk, mCalls, totalDownloaded>>
    /\ UNCHANGED notMed

MediaDone ==
    /\ mPc = "person" /\ mIdx > Len(MediaRoster)
    /\ mPc' = "done"
    /\ UNCHANGED <<mIdx, mItems, mPos, mFiles, disk, mCalls, mediaIndex, totalDownloaded>>
    /\ UNCHANGED notMed

MediaNext ==
    \/ MediaSkipPerson
    \/ MediaListFail
    \/ MediaListOk
    \/ MediaItemExists
    \/ MediaItemDownloadFails
    \/ MediaItemSaveFails
    \/ MediaItemSaved
    \/ MediaPersonDone
    \/ MediaDone

SpecMedia == MediaInit /\ [][MediaNext]_vars

---------------------------------------------------------------------------
(* fetchTreeData with the retry loop of factsHTMLReq spelled out. The run *)
(* is one sequential process and every remote call returns, with an       *)
(* answer, an error or a timeout: the next step is always taken.          *)

\* what the retry loop leaves alone
notLive == <<scanVars, srcVars, infVars, medVars, rerunVars, sesVars, callVars,
             fPc, fLog, fFacts, fGraph, fEvents, fWarned>>

LiveInit ==
    /\ FirstRun
    /\ CallIdle
    /\ SesIdle
    /\ MedIdle
    /\ ScanIdle
    /\ SrcIdle
    /\ InfIdle
    /\ fPc = "idle" /\ fLog = <<>> /\ fFacts = <<>>
    /\ fGraph = <<>> /\ fEvents = <<>> /\ fWarned = FALSE
    /\ attempt = 1
    /\ pc = "count" /\ totalCount = 0 /\ page = 0 /\ allPersons = <<>>
    /\ relationships = <<>> /\ familyViewEvents = <<>> /\ cur = 0
    /\ requests = <<>> /\ printed = {} /\ result = "none"

\* a retry loop that starts over after its last attempt
FactsRetryAgain ==
    /\ pc = "facts" /\ cur <= Len(allPersons)
    /\ attempt' = IF attempt < MaxAttempts THEN attempt + 1 ELSE 1
    /\ UNCHANGED runVars
    /\ UNCHANGED notLive

\* factsHTMLReq: the attempt fails and is not the last one; sleep, next attempt
FactsRetry ==
    /\ pc = "facts" /\ cur <= Len(allPersons)
    /\ attempt < MaxAttempts
    /\ attempt' = attempt + 1
    /\ UNCHANGED runVars
    /\ UNCHANGED notLive

\* factsHTMLReq fails on its last attempt, or the page it got cannot be read
FactsGivenUp ==
    /\ PersonFactsFailed
    /\ attempt' = 1
    /\ UNCHANGED notLive

\* factsHTMLReq breaks out of the loop and the page is read
FactsRead ==
    /\ PersonFactsAnswered
    /\ attempt' = 1
    /\ UNCHANGED notLive

LiveNext ==
    \/ GetPersonsCountFail
    \/ GetPersonsCountOk
    \/ GetAllPersonsFail
    \/ GetAllPersonsOk
    \/ DownloadedAllPersons
    \/ GetFamilyViewFail
    \/ GetFamilyViewOk
    \/ BuiltRelationships
    \/ FactsRetry
    \/ FactsGivenUp
    \/ FactsRead
    \/ InferAndReturn

\* the steps that wait for a remote call or move between the stages
LiveCalls ==
    \/ GetPersonsCountFail
    \/ GetPersonsCountOk
    \/ GetAllPersonsFail
    \/ GetAllPersonsOk
    \/ DownloadedAllPersons
    \/ GetFamilyViewFail
    \/ GetFamilyViewOk
    \/ BuiltRelationships
    \/ FactsRetry
    \/ FactsGivenUp
    \/ FactsRead

\* fetchFactsForAllPersons has returned: inferEventTypes, a computation over
\* finite slices, completes and fetchTreeData returns
InferenceReturns == pc = "facts" /\ cur > Len(allPersons) /\ pc' = "done"

SpecLive ==
    LiveInit /\ [][LiveNext]_vars /\ WF_vars(LiveCalls) /\ WF_pc(InferenceReturns)

---------------------------------------------------------------------------
(* login and logout: the keyring entries and the cookies file *)

MaxSessionOps == 3

Users == {"alice", "bob"}

PasswordOf(u) == IF u = "alice" THEN "pw-alice" ELSE "pw-bob"

\* the serialized session cookies of a login as u
SessionOf(u) == IF u = "alice" THEN "session-alice" ELSE "session-bob"

\* what was not touched by login and logout
notSes == <<scanVars, srcVars, infVars, runVars, facVars, medVars, rerunVars,
            callVars>>

SessionInit ==
    /\ FirstRun
    /\ CallIdle
    /\ MedIdle /\ ScanIdle /\ SrcIdle /\ InfIdle /\ RunIdle /\ FacIdle
    /\ keyring = [username |-> Absent, password |-> Absent]
    /\ cookieFile = Absent
    /\ sessLog = <<>>

Ran(op, failed) == [op |-> op, err |-> failed]

\* Login returns an error before anything is saved: browser, navigation,
\* login, cookie extraction or serialization failed
LoginFails ==
    /\ Len(sessLog) < MaxSessionOps
    /\ sessLog' = Append(sessLog, Ran("login", TRUE))
    /\ UNCHANGED <<keyring, cookieFile>>
    /\ UNCHANGED notSes

\* SaveCookies fails: Login returns "failed to save cookies"; a failed
\* os.WriteFile may have truncated the file
LoginCookiesNotSaved ==
    /\ Len(sessLog) < MaxSessionOps
    /\ \E truncated \in BOOLEAN :
        cookieFile' = IF truncated THEN "partial" ELSE cookieFile
    /\ sessLog' = Append(sessLog, Ran("login", TRUE))
    /\ UNCHANGED keyring
    /\ UNCHANGED notSes

\* the cookies are saved and SaveCredentials fails, at the username or at the
\* password: a warning, and Login returns nil
LoginCredentialsNotSaved ==
    /\ Len(sessLog) < MaxSessionOps
    /\ \E u \in Users, usernameSet \in BOOLEAN :
        /\ cookieFile' = SessionOf(u)
        /\ keyring' = IF usernameSet THEN [keyring EXCEPT !.username = u] ELSE keyring
    /\ sessLog' = Append(sessLog, Ran("login", FALSE))
    /\ UNCHANGED notSes

\* the cookies and the credentials are saved
LoginOk ==
    /\ Len(sessLog) < MaxSessionOps
    /\ \E u \in Users :
        /\ cookieFile' = SessionOf(u)
        /\ keyring' = [username |-> u, password |-> PasswordOf(u)]
    /\ sessLog' = Append(sessLog, Ran("login", FALSE))
    /\ UNCHANGED notSes

\* GetCredentials returns ErrCredentialsNotFound
CredentialsNotFound(entries) == entries.username = Absent \/ entries.password = Absent

\* Logout: "No credentials found. You are not logged in.", return nil
LogoutNotLoggedIn ==
    /\ Len(sessLog) < MaxSessionOps
    /\ CredentialsNotFound(keyring)
    /\ sessLog' = Append(sessLog, Ran("logout", FALSE))
    /\ UNCHANGED <<keyring, cookieFile>>
    /\ UNCHANGED notSes

\* GetCredentials fails otherwise: Logout returns "failed to check credentials"
LogoutCheckFails ==
    /\ Len(sessLog) < MaxSessionOps
    /\ sessLog' = Append(sessLog, Ran("logout", TRUE))
    /\ UNCHANGED <<keyring, cookieFile>>
    /\ UNCHANGED notSes

\* DeleteCredentials: what is left when the three deletions fail as given;
\* without a cookies path the file is not touched and no error is recorded
DeleteCredentials(usernameFails, passwordFails, pathKnown, removeFails) ==
    [keyring |-> [username |-> IF usernameFails THEN keyring.username ELSE Absent,
                  password |-> IF passwordFails THEN keyring.password ELSE Absent],
     cookieFile |-> IF pathKnown /\ ~removeFails THEN Absent ELSE cookieFile,
     failed |-> usernameFails \/ passwordFails \/ (pathKnown /\ removeFails)]

\* Logout with stored credentials: DeleteCredentials runs
LogoutDeletes ==
    /\ Len(sessLog) < MaxSessionOps
    /\ ~CredentialsNotFound(keyring)
    /\ \E usernameFails, passwordFails, pathKnown, removeFails \in BOOLEAN :
        LET left == DeleteCredentials(usernameFails, passwordFails, pathKnown, removeFails) IN
        /\ keyring' = left.keyring
        /\ cookieFile' = left.cookieFile
        /\ sessLog' = Append(sessLog, Ran("logout", left.failed))
    /\ UNCHANGED notSes

SessionNext ==
    \/ LoginFails
    \/ LoginCookiesNotSaved
    \/ LoginCredentialsNotSaved
    \/ LoginOk
    \/ LogoutNotLoggedIn
    \/ LogoutCheckFails
    \/ LogoutDeletes

SpecSession == SessionInit /\ [][SessionNext]_vars

---------------------------------------------------------------------------
(* sanitizeFilename: the definition of utils.go, and the one kept in      *)
(* download_tree.go, each applied to bounded names                        *)

MaxTail == 3

\* norm.NFD of one character
Decompose(c) == IF c = ATilde THEN <<"a", Tilde>> ELSE <<c>>

\* runes.Remove(runes.In(unicode.Mn)) on a decomposed character: at most the
\* base character is left
Unmarked(c) == SelectSeq(Decompose(c), LAMBDA d : d # Tilde)

\* transform.Chain(norm.NFD, runes.Remove(runes.In(unicode.Mn)), norm.NFC)
Transliterate(name) ==
    LET parts == SelectSeq([k \in DOMAIN name |-> Unmarked(name[k])], LAMBDA part : part # <<>>)
    IN  [k \in DOMAIN parts |-> parts[k][1]]

\* the characters the builder loop keeps
Kept == {"a", "7", "_", "-"}

\* strings.Trim(name, "-_ ")
Cutset == {"-", "_", " "}

RECURSIVE TrimLeft(_)
TrimLeft(name) ==
    IF name # <<>> /\ Head(name) \in Cutset THEN TrimLeft(Tail(name)) ELSE name

RECURSIVE TrimRight(_)
TrimRight(name) ==
    IF name # <<>> /\ name[Len(name)] \in Cutset
    THEN TrimRight(SubSeq(name, 1, Len(name) - 1))
    ELSE name

\* a trim of the leading characters only
TrimOnlyLeft(name) == TrimLeft(name)

Trim(name) == TrimRight(TrimLeft(name))

Unnamed == <<"u", "n", "n", "a", "m", "e", "d">>

\* utils.go
sanitizeFilenameUtils(name) ==
    LET replaced == Replace(Transliterate(name))
        ascii    == SelectSeq(replaced, LAMBDA c : c \in Kept)
        trimmed  == Trim(Take(ascii, NameCap))
    IN  IF trimmed = <<>> THEN Unnamed ELSE trimmed

\* the characters names are made of: a letter, a digit, the separators, a
\* space, a dot, two forbidden characters, an accented letter, a bare
\* combining mark and a character without decomposition
NameChars == {"a", "7", "_", "-", " ", ".", "/", "?", ATilde, Tilde, Han}

Pad(k) == [j \in 1..k |-> "a"]

\* short names, and names that reach the length limit
SanitizeInputs ==
    {Pad(k) \o w : k \in {0, NameCap - 2, NameCap - 1, NameCap},
                   w \in UNION {[1..n -> NameChars] : n \in 0..MaxTail}}

notCall == <<scanVars, srcVars, infVars, runVars, facVars, medVars, rerunVars, sesVars>>

SanitizeInit ==
    /\ FirstRun
    /\ MedIdle /\ ScanIdle /\ SrcIdle /\ InfIdle /\ RunIdle /\ FacIdle /\ SesIdle
    /\ callBy = "none"
    /\ callIn \in SanitizeInputs
    /\ callOut = <<>>

\* a call of the sanitizeFilename of utils.go
CallSanitizeUtils ==
    /\ callBy = "none"
    /\ callBy' = "utils.go"
    /\ callOut' = sanitizeFilenameUtils(callIn)
    /\ UNCHANGED callIn
    /\ UNCHANGED notCall

\* a call of the sanitizeFilename of download_tree.go
CallSanitizeTree ==
    /\ callBy = "none"
    /\ callBy' = "download_tree.go"
    /\ callOut' = sanitizeFilename(callIn)
    /\ UNCHANGED callIn
    /\ UNCHANGED notCall

SanitizeNext ==
    \/ CallSanitizeUtils
    \/ CallSanitizeTree

SpecSanitize == SanitizeInit /\ [][SanitizeNext]_vars

--------------------------------------------------------------------------
(* processFamilyView applied to bounded families: the focus person P1,   *)
(* with P2 in the payload and P9 not in it                                *)

MaxFamily == 3

\* FamilyMember.Type: the five codes with a list, and one without
TypeCodes == {"F", "M", "H", "W", "C", "X"}

\* TGID["v"]: a person of the payload, a person outside it, or no string
Targets == {"P2", "P9", NoTarget}

Families ==
    UNION {[1..n -> {FamilyMember(type, tgid) : type \in TypeCodes, tgid \in Targets}] :
              n \in 0..MaxFamily}

\* the family view of P1 when its Family is `family`
FamilyViewWith(family) ==
    [Persons |-> <<[FamilyViewPerson("P1") EXCEPT !.family = family], CatalogPerson("P2")>>]

FamilyViewInit ==
    /\ FirstRun
    /\ MedIdle /\ ScanIdle /\ SrcIdle /\ InfIdle /\ RunIdle /\ FacIdle /\ SesIdle
    /\ callBy = "none"
    /\ callIn \in Families
    /\ callOut = <<>>

\* the call processFamilyView(personID, familyView) of buildRelationships
CallProcessFamilyView ==
    /\ callBy = "none"
    /\ callBy' = "processFamilyView"
    /\ callOut' = processFamilyView("P1", FamilyViewWith(callIn))
    /\ UNCHANGED callIn
    /\ UNCHANGED notCall

SpecFamilyView == FamilyViewInit /\ [][CallProcessFamilyView]_vars

--------------------------------------------------------------------------
(* Properties of the detail call *)

\* the marker is there but no close matches the object's opening brace
ScanAnomaly == hasMarker /\ ~BalancedObject(tail)

\* C11: when the marker is present and the text after it has no matching
\* close (an unterminated quoted string among the cases), the scan returns an
\* error and never data, the call cannot get stuck, the loop body prints its
\* warning and goes on to the next person, and the person's events are at
\* every moment the ones it had before the call.
C11_ScanAnomalyIsNonFatal ==
    ScanAnomaly =>
        /\ scanRes \in {"none", "unbalanced", "unmarshalError"}
        /\ spc = "done" => scanRes \in {"unbalanced", "unmarshalError"}
        /\ fEvents = fGraph
        /\ fPc = "next" => fWarned
        /\ fPc # "next" => ENABLED FactsNext

\* the text {"} : the quoted string never ends; the person had an event
C11_Witness ==
    /\ tail = <<LB, QT, RB>>
    /\ hasMarker
    /\ scanRes = "unbalanced"
    /\ fPc = "next" /\ fWarned
    /\ fGraph = <<Event(Death, D1)>> /\ fEvents = fGraph

\* the positions of the requests in factsHTMLReq's log
RequestAt == {k \in DOMAIN fLog : fLog[k].op = "request"}

\* C12: factsHTMLReq issues at most two requests; a second one only after the
\* first has failed and the cooldown sleep has been taken, and with a longer
\* timeout; nothing follows a request that succeeded; after two failed
\* requests the call is an error and the page is never scanned.
C12_AtMostTwoAttempts ==
    /\ Cardinality(RequestAt) <= 2
    /\ \A k \in RequestAt : fLog[k].ok => k = Len(fLog)
    /\ \A a, b \in RequestAt :
        a < b =>
            /\ ~fLog[a].ok
            /\ \E c \in (a + 1)..(b - 1) : fLog[c].op = "sleep" /\ fLog[c].secs = Cooldown
            /\ fLog[b].secs > fLog[a].secs
    /\ (Cardinality(RequestAt) = 2 /\ \A k \in RequestAt : ~fLog[k].ok) =>
            /\ FactsError \/ (fPc = "next" /\ fWarned)
            /\ spc = "idle" /\ scanRes = "none"

\* a first attempt that failed, the sleep, a second attempt that succeeded
C12_Witness ==
    /\ fLog = <<LogRequest(1, FALSE), LogSleep, LogRequest(2, TRUE)>>
    /\ fLog[3].secs > fLog[1].secs
    /\ fPc = "next"

\* the loop body is over and the page's facts were read
FactsMerged == fPc = "next" /\ scanRes = "ok"

\* C14: every event the person had before the facts were merged is still
\* there afterwards, with its date.
C14_MergeLosesNoEvent ==
    FactsMerged =>
        \A j \in DOMAIN fGraph : \E k \in DOMAIN fEvents : fEvents[k].Date = fGraph[j].Date

\* C15: where exactly one extracted fact has the date of an event the person
\* already had, the person has afterwards as many events of that date as
\* before, and the event is refined in place: place and description are the
\* fact's, the type is the fact's only if the event's own type was blank.
C15_SameDateRefinesInPlace ==
    FactsMerged =>
        LET extracted == FactEvents(fFacts) IN
        \A j \in DOMAIN fGraph :
            LET same == {k \in DOMAIN extracted : extracted[k].Date = fGraph[j].Date} IN
            Cardinality(same) = 1 =>
                LET f == extracted[CHOOSE k \in same : TRUE] IN
                /\ Cardinality({k \in DOMAIN fEvents : fEvents[k].Date = fGraph[j].Date})
                     = Cardinality({k \in DOMAIN fGraph : fGraph[k].Date = fGraph[j].Date})
                /\ j \in DOMAIN fEvents
                /\ fEvents[j].Date = fGraph[j].Date
                /\ fEvents[j].Place = f.Place
                /\ fEvents[j].Description = f.Description
                /\ fEvents[j].Type =
                     (IF fGraph[j].Type = EmptyType THEN f.Type ELSE fGraph[j].Type)

---------------------------------------------------------------------------
(* Properties of downloadAllMedia *)

\* the item of a call is listed under its person: in personInfo.Files while
\* the person is processed, in the media index afterwards
Recorded(call) ==
    IF mPc = "items"
    THEN \E j \in DOMAIN mFiles : mFiles[j].FilePath = call.path
    ELSE \E e \in mediaIndex :
            /\ e.PersonID = call.person
            /\ \E j \in DOMAIN e.Files : e.Files[j].FilePath = call.path

\* C16: a processMediaItem call whose target file is there from an earlier
\* run sends no download request and writes nothing, the file keeps its
\* content, and the item is still recorded in the media index; and every
\* call whose target file was there is such a call.
C16_ExistingFileIsKeptAndRecorded ==
    \A k \in DOMAIN mCalls :
        LET call == mCalls[k] IN
        /\ File(call.path, "old") \in disk => call.existed
        /\ call.existed =>
            /\ ~call.requested
            /\ ~call.wrote
            /\ ~call.failed
            /\ File(call.path, "old") \in disk
            /\ Recorded(call)

\* the run ended; one item was found on disk, the next one was downloaded,
\* and both are in the index
C16_Witness ==
    /\ mPc = "done"
    /\ Len(mCalls) = 2
    /\ mCalls[1].existed /\ ~mCalls[1].requested
    /\ mCalls[2].requested /\ mCalls[2].wrote /\ ~mCalls[2].failed
    /\ totalDownloaded = 1
    /\ \E e \in mediaIndex : Len(e.Files) = 2
    /\ File(mCalls[1].path, "old") \in disk
    /\ File(mCalls[2].path, "new") \in disk

--------------------------------------------------------------------------
(* Properties of fetchTreeData *)

\* the requests of one kind, in the order issued
RequestsOf(kinds) == SelectSeq(requests, LAMBDA r : r.kind \in kinds)

\* the IDs received on the catalog pages, in the order received
ReceivedIDs ==
    LET pages == RequestsOf({"page"}) IN Flatten([k \in DOMAIN pages |-> pages[k].ids])

RosterIDs == [k \in DOMAIN allPersons |-> allPersons[k].id]

CountProbeFailed ==
    \E k \in DOMAIN requests : requests[k].kind = "count" /\ ~requests[k].ok

\* C1: once GetPersonsCount has failed the run is over with the count error,
\* no roster and no relationships are returned, and the count probe is the
\* only request that was ever issued.
C1_CountFailureAborts ==
    CountProbeFailed =>
        /\ pc = "done" /\ result = "countError"
        /\ allPersons = <<>> /\ relationships = <<>> /\ familyViewEvents = <<>>
        /\ requests = <<Request("count", 0, FALSE, <<>>)>>

C1_Witness ==
    /\ CountProbeFailed
    /\ pc = "done" /\ result = "countError" /\ Len(requests) = 1

\* C2: a failed catalog page does not abort the run: the run ends in success
\* and the roster holds the entities of every page that was received.
C2_PageFailureIsAGap ==
    (pc = "done" /\ \E k \in DOMAIN requests : requests[k].kind = "page" /\ ~requests[k].ok) =>
        /\ result = "ok"
        /\ \A k \in DOMAIN ReceivedIDs : \E a \in DOMAIN allPersons : allPersons[a].id = ReceivedIDs[k]

\* C3: the roster downloadAllPersons hands on holds each ID at most once.
C3_RosterIDsUnique ==
    pc \notin {"count", "pages"} =>
        \A a, b \in DOMAIN allPersons : allPersons[a].id = allPersons[b].id => a = b

CatalogObtained ==
    /\ pc \notin {"count", "pages"}
    /\ \A k \in DOMAIN requests : requests[k].kind \in {"count", "page"} => requests[k].ok

\* C4: once the count and every catalog page have been obtained, the roster
\* is, and stays, the catalog entries received, the run never takes an error
\* result, and when it is over it has succeeded - however many family-view and
\* facts fetches failed.
C4_DetailFailuresNeverFailTheRun ==
    CatalogObtained =>
        /\ RosterIDs = ReceivedIDs
        /\ result \in {"none", "ok"}
        /\ pc = "done" => result = "ok"

FailedAt(kind, at) ==
    \E k \in DOMAIN requests :
        requests[k].kind = kind /\ requests[k].arg = at /\ ~requests[k].ok

\* a finished run of four entities, every family view and every facts page failed
C4_Witness ==
    /\ CatalogObtained
    /\ pc = "done" /\ result = "ok"
    /\ Len(allPersons) = 4
    /\ \A at \in DOMAIN allPersons : FailedAt("familyView", at) /\ FailedAt("facts", at)

\* C5: every failed family-view or facts fetch has left, among the run's
\* per-person messages, one for that stage naming the person it failed for.
C5_EveryFailureReported ==
    \A k \in DOMAIN requests :
        (requests[k].kind \in {"familyView", "facts"} /\ ~requests[k].ok) =>
            <<requests[k].kind, allPersons[requests[k].arg].name>> \in printed

\* the family view of the person at roster position at was answered and
\* holds its focus person
Answered(at) ==
    \E k \in DOMAIN requests :
        /\ requests[k].kind = "familyView" /\ requests[k].arg = at /\ requests[k].ok
        /\ \E a \in DOMAIN requests[k].ids : requests[k].ids[a] = allPersons[at].id

Queried(at) ==
    \E k \in DOMAIN requests : requests[k].kind = "familyView" /\ requests[k].arg = at

\* the roster positions buildRelationships has dealt with
Visited == {at \in DOMAIN allPersons : pc # "rels" \/ at < cur}

--------------------------------------------------------------------------
(* Properties of a second run *)

\* an event whose type is a label written by updateEmptyEvents
Inferred(evt) == Len(evt.Type) > 1 /\ evt.Type[2] = "of"

--------------------------------------------------------------------------
(* Properties of the order of the stages *)

FactsQueried(at) ==
    \E k \in DOMAIN requests : requests[k].kind = "facts" /\ requests[k].arg = at

NothingInferredIn(persons) ==
    \A k \in DOMAIN persons : \A j \in DOMAIN persons[k].events :
        ~Inferred(persons[k].events[j])

NothingInferredYet == NothingInferredIn(allPersons)

--------------------------------------------------------------------------
(* Properties of termination *)

\* C19: whatever the catalog and whichever remote calls fail, the run ends:
\* with the aggregate (possibly incomplete) or with the one fatal error of
\* the count probe or of a catalog page.
C19_RunTerminates ==
    <>(pc = "done" /\ result \in {"ok", "countError", "pageError"})

\* a run that ended with an aggregate although every facts page failed on
\* both attempts
C19_Witness ==
    /\ pc = "done" /\ result = "ok"
    /\ Len(allPersons) >= 3
    /\ \A k \in DOMAIN allPersons :
        \E j \in DOMAIN requests :
            requests[j].kind = "facts" /\ requests[j].arg = k /\ ~requests[j].ok

--------------------------------------------------------------------------
(* Properties of login and logout *)

\* C20: when the last command run was a Logout that returned no error, the
\* keyring holds neither username nor password and the cookies file holds no
\* session.
C20_LogoutLeavesNothingStored ==
    (Len(sessLog) > 0 /\ sessLog[Len(sessLog)] = Ran("logout", FALSE)) =>
        /\ keyring.username = Absent
        /\ keyring.password = Absent
        /\ cookieFile \notin {SessionOf(u) : u \in Users}

--------------------------------------------------------------------------
(* Properties of sanitizeFilename *)

\* non-empty, at most 50 characters, only ASCII letters, digits, '_' and
\* '-', neither starting nor ending with '-' or '_'
SafeName(out) ==
    /\ out # <<>>
    /\ ByteLen(out) <= NameCap
    /\ \A k \in DOMAIN out : out[k] \in {"a", "7", "_", "-", "u", "n", "m", "e", "d"}
    /\ out[1] \notin {"-", "_"}
    /\ out[Len(out)] \notin {"-", "_"}

\* the name is empty or made of spaces and dots only
ReducesToNothing(name) == \A k \in DOMAIN name : name[k] \in {" ", "."}

--------------------------------------------------------------------------
(* Properties of processFamilyView *)

\* the type codes that choose a list
CodesOf(list) ==
    CASE list = "Parents" -> {"F", "M"}
      [] list = "Spouses" -> {"H", "W"}
      [] OTHER -> {"C"}

Lists == {"Parents", "Spouses", "Children"}

EdgesIn(rel, list) ==
    CASE list = "Parents" -> rel.Parents
      [] list = "Spouses" -> rel.Spouses
      [] OTHER -> rel.Children

\* the target IDs of the edges of a list, in list order
EdgeTargets(rel, list) ==
    [k \in DOMAIN EdgesIn(rel, list) |-> EdgesIn(rel, list)[k].PersonID]

\* the targets of the references a filter keeps, in payload order
ReferenceTargets(family, keep(_)) ==
    LET kept == SelectSeq(family, keep) IN [k \in DOMAIN kept |-> kept[k].TGID]

\* C27 as stated: the edges of each list are the references with a type code
\* of the list, one edge each, in payload order; other codes give no edge.
C27_OneEdgePerReference ==
    callBy = "processFamilyView" =>
        /\ callOut.ok
        /\ \A list \in Lists :
            EdgeTargets(callOut.rel, list) =
                ReferenceTargets(callIn, LAMBDA fm : fm.Type \in CodesOf(list))

\* C27 as amended: the edges of each list are the references with a type
\* code of the list whose target ID is a string, one edge each, in payload
\* order; a reference with another code, or without a string target ID,
\* gives no edge.
C27_OneEdgePerReferenceWithTarget ==
    callBy = "processFamilyView" =>
        /\ callOut.ok
        /\ \A list \in Lists :
            EdgeTargets(callOut.rel, list) =
                ReferenceTargets(callIn,
                    LAMBDA fm : fm.Type \in CodesOf(list) /\ fm.TGID # NoTarget)

\* a mother without a target ID between a father and a child, and a
\* reference of an unknown code: two edges
C27_Witness ==
    /\ callBy = "processFamilyView"
    /\ callIn = <<FamilyMember("F", "P2"), FamilyMember("M", NoTarget), FamilyMember("X", "P2")>>
    /\ callOut.rel.Parents = <<RelationRef("P2")>>
    /\ callOut.rel.Spouses = <<>> /\ callOut.rel.Children = <<>>

\* C28: a reference with a type code of a list and a target ID that no
\* person of the payload carries is an edge of that list whose name is the
\* target ID; as many such edges as such references.
C28_UnresolvedTargetKeepsItsEdge ==
    callBy = "processFamilyView" =>
        \A list \in Lists :
            LET unresolved == SelectSeq(callIn, LAMBDA fm :
                                  fm.Type \in CodesOf(list) /\ fm.TGID = "P9")
                raw == SelectSeq(EdgesIn(callOut.rel, list), LAMBDA ref : ref.PersonID = "P9")
            IN  /\ Len(raw) = Len(unresolved)
                /\ \A k \in DOMAIN raw : raw[k].Name = "P9"

\* a mother outside the payload and a father inside it: two parents, the
\* first under its raw ID
C28_Witness ==
    /\ callBy = "processFamilyView"
    /\ callIn = <<FamilyMember("M", "P9"), FamilyMember("F", "P2")>>
    /\ callOut.rel.Parents = <<[PersonID |-> "P9", Name |-> "P9"], [PersonID |-> "P2", Name |-> "N2"]>>

--------------------------------------------------------------------------
(* Properties of inferEventTypes within one family *)

\* the events of kinds `kinds` the person at roster position k carries at the
\* printed date dateStr
Carried(k, kinds, dateStr) ==
    SelectSeq(inPersons[k].events, LAMBDA evt :
        evt.Type \in kinds /\ evt.Date # NilDate /\ DateStr(evt.Date) = dateStr)

Gives(k, kinds, dateStr) == Carried(k, kinds, dateStr) # <<>>

\* "<EventKind> of <relation-label> <name>" for the event the person at k
\* carries at dateStr
KinLabel(k, kinds, dateStr, relationLabel) ==
    Label(Carried(k, kinds, dateStr)[1].Type, relationLabel, inPersons[k].name)

\* the untyped, dated events of P1
Untyped(j) ==
    /\ inPersons[1].events[j].Type = EmptyType
    /\ inPersons[1].events[j].Date # NilDate

\* C23: when several of P1's relations have a label for the date of an
\* untyped event of P1, the event gets the label of the category processed
\* last: the spouse's if the spouse has one, else the parent's, else the
\* sibling's, else the child's.
C23_LastCategoryWins ==
    infPc = "done" =>
        \A j \in DOMAIN inPersons[1].events : Untyped(j) =>
            LET at == DateStr(inPersons[1].events[j].Date) IN
            outPersons[1].events[j].Type =
                IF Gives(5, {Death}, at) THEN KinLabel(5, {Death}, at, "wife")
                ELSE IF Gives(4, {Death}, at) THEN KinLabel(4, {Death}, at, "father")
                ELSE IF Gives(3, {Birth, Death}, at) THEN KinLabel(3, {Birth, Death}, at, "sibling")
                ELSE IF Gives(2, {Birth, Death}, at) THEN KinLabel(2, {Birth, Death}, at, "daughter")
                ELSE EmptyType

\* child, sibling, parent and spouse all have a label for 1950; the spouse's
\* is the one P1's event carries
C23_Witness ==
    /\ infPc = "done"
    /\ inPersons[1].events = <<Noted(Event(EmptyType, D1))>>
    /\ inPersons[2].events = <<Event(Birth, D1)>>
    /\ inPersons[3].events = <<Event(Birth, D1)>>
    /\ inPersons[4].events = <<Event(Death, D1)>>
    /\ inPersons[5].events = <<Event(Death, D1)>>
    /\ outPersons[1].events[1].Type = Label(Death, "wife", "N5")

\* the relation label of the family member at roster position k, as P1 sees it
RelationLabel(k) ==
    CASE k = 2 -> "daughter" [] k = 3 -> "sibling" [] k = 4 -> "father" [] OTHER -> "wife"

Relatives == 2..5

\* C24 as stated: an untyped event of P1 that shares its date with a Birth or
\* Death event of a child, sibling, parent or spouse carries a label
\* "<EventKind> of <relation-label> <name>" of one of them.
C24_BirthAndDeathOfEveryRelation ==
    infPc = "done" =>
        \A j \in DOMAIN inPersons[1].events : Untyped(j) =>
            LET at == DateStr(inPersons[1].events[j].Date)
                givers == {k \in Relatives : Gives(k, {Birth, Death}, at)} IN
            givers # {} =>
                outPersons[1].events[j].Type \in
                    {KinLabel(k, {Birth, Death}, at, RelationLabel(k)) : k \in givers}

\* the event kinds the relation at k contributes
ContributedKinds(k) == IF k \in {2, 3} THEN {Birth, Death} ELSE {Death}

\* C24 as amended: children and siblings contribute labels from their Birth
\* and Death events, parents and spouses from their Death events only; an
\* untyped event of P1 carries a label exactly if one of these events shares
\* its date, and a Birth of a parent or spouse on that date gives none.
C24_BirthOnlyOfChildrenAndSiblings ==
    infPc = "done" =>
        \A j \in DOMAIN inPersons[1].events : Untyped(j) =>
            LET at == DateStr(inPersons[1].events[j].Date)
                givers == {k \in Relatives : Gives(k, ContributedKinds(k), at)} IN
            IF givers = {}
            THEN outPersons[1].events[j].Type = EmptyType
            ELSE outPersons[1].events[j].Type \in
                    {KinLabel(k, ContributedKinds(k), at, RelationLabel(k)) : k \in givers}

\* P1's father and wife were born in 1950, P1 has an untyped event of 1950,
\* and it is still untyped after the inference
C24_Witness ==
    /\ infPc = "done"
    /\ inPersons[1].events = <<Noted(Event(EmptyType, D1))>>
    /\ inPersons[2].events = <<>> /\ inPersons[3].events = <<>>
    /\ inPersons[4].events = <<Event(Birth, D1)>>
    /\ inPersons[5].events = <<Event(Birth, D1)>>
    /\ outPersons[1].events = inPersons[1].events

\* C25: an untyped event whose date is missing or is the empty string is
\* untyped after the inference, whatever the relations carry.
C25_UndatedEventsStayUntyped ==
    infPc = "done" =>
        \A k \in DOMAIN inPersons : \A j \in DOMAIN inPersons[k].events :
            (/\ inPersons[k].events[j].Type = EmptyType
             /\ inPersons[k].events[j].Date \in {NilDate, EmptyDate}) =>
                outPersons[k].events[j].Type = EmptyType

\* C26: inferEventTypes returns the same persons with the same events in the
\* same order; an event differs from what it was in its type at most, and
\* only if its type was empty; the relationship map is what it was.
C26_OnlyEmptyTypesChange ==
    infPc = "done" =>
        /\ DOMAIN outPersons = DOMAIN inPersons
        /\ \A k \in DOMAIN inPersons :
            /\ outPersons[k] = [inPersons[k] EXCEPT !.events = outPersons[k].events]
            /\ DOMAIN outPersons[k].events = DOMAIN inPersons[k].events
            /\ \A j \in DOMAIN inPersons[k].events :
                LET was == inPersons[k].events[j]
                    is == outPersons[k].events[j] IN
                /\ is = [was EXCEPT !.Type = is.Type]
                /\ was.Type # EmptyType => is = was
        /\ inRels = KinRelationships

\* P2's untyped event got a label from the death of its father, and kept its
\* date, place and description
C26_Witness ==
    /\ infPc = "done"
    /\ inPersons[1].events = <<Event(Death, D1)>>
    /\ inPersons[2].events = <<Noted(Event(EmptyType, D1))>>
    /\ outPersons[2].events =
          <<[Noted(Event(EmptyType, D1)) EXCEPT !.Type = Label(Death, "father", "N1")]>>
    /\ outPersons[1].events = inPersons[1].events

\* the loop of inferEventTypes taken over the roster positions in another order
RECURSIVE InferInOrder(_, _, _)
InferInOrder(persons, relMap, order) ==
    IF order = <<>> THEN persons
    ELSE InferInOrder(InferOne(persons, relMap, Head(order)), relMap, Tail(order))

\* the orders in which the persons of the roster can be taken
InferOrders ==
    {order \in [DOMAIN InferIDs -> DOMAIN InferIDs] :
        \A a, b \in DOMAIN InferIDs : order[a] = order[b] => a = b}

\* C30: taking the persons in any order gives the persons inferEventTypes
\* returns, and no label it writes is read as a Birth or a Death.
C30_OrderOfPersonsDoesNotMatter ==
    infPc = "done" =>
        /\ \A order \in InferOrders : InferInOrder(inPersons, inRels, order) = outPersons
        /\ \A k \in DOMAIN outPersons : \A j \in DOMAIN outPersons[k].events :
            outPersons[k].events[j].Type # inPersons[k].events[j].Type =>
                outPersons[k].events[j].Type \notin {Birth, Death}

\* P1's untyped event took the death of its parent P3 while P1's own child P2
\* has an untyped event of the same date, which stays untyped
C30_Witness ==
    /\ infPc = "done"
    /\ inPersons[3].events = <<Event(Death, D1)>>
    /\ inPersons[1].events = <<Event(EmptyType, D1)>>
    /\ inPersons[2].events = <<Event(EmptyType, D1)>>
    /\ "P1" \in DOMAIN inRels /\ inRels["P1"].Parents = <<RelationRef("P3")>>
    /\ "P2" \in DOMAIN inRels /\ inRels["P2"].Parents = <<RelationRef("P1")>>
    /\ outPersons[1].events[1].Type = Label(Death, "parent", "N3")
    /\ outPersons[2].events = inPersons[2].events

--------------------------------------------------------------------------
(* Properties of inferEventTypes *)

\* C6: every event whose type is non-empty when inferEventTypes is called has
\* the same type (and the call adds or drops no event) when it returns, for
\* every population and relationship map.
C6_TypedEventsKeepTheirType ==
    infPc = "done" =>
        \A k \in DOMAIN inPersons :
            /\ Len(outPersons[k].events) = Len(inPersons[k].events)
            /\ \A j \in DOMAIN inPersons[k].events :
                inPersons[k].events[j].Type # EmptyType =>
                    outPersons[k].events[j].Type = inPersons[k].events[j].Type

\* a typed event of a person sits beside an untyped one of the same date that
\* the call did retype from a relative
C6_Witness ==
    /\ infPc = "done"
    /\ \E k \in DOMAIN inPersons : \E j, u \in DOMAIN inPersons[k].events :
        /\ inPersons[k].events[j].Type = Marriage
        /\ inPersons[k].events[j].Date = inPersons[k].events[u].Date
        /\ inPersons[k].events[u].Type = EmptyType
        /\ outPersons[k].events[u].Type # EmptyType
        /\ outPersons[k].events[j].Type = Marriage

HasRef(refs, id) == \E a \in DOMAIN refs : refs[a].PersonID = id

\* src has an event of one of the kinds on the date, and label names it
Names(label, src, kinds, dateStr, maleLabel, femaleLabel, neutralLabel) ==
    \E a \in DOMAIN src.events :
        /\ src.events[a].Type \in kinds
        /\ src.events[a].Date # NilDate
        /\ DateStr(src.events[a].Date) = dateStr
        /\ label = src.events[a].Type \o
              <<"of", (IF src.gender = "m" THEN maleLabel
                       ELSE IF src.gender = "f" THEN femaleLabel ELSE neutralLabel),
                src.name>>

\* the four relations of the focal person focal that may supply a label
ChildOf(focal, src) == HasRef(inRels[focal.id].Children, src.id)
ParentOf(focal, src) == HasRef(inRels[focal.id].Parents, src.id)
SpouseOf(focal, src) == HasRef(inRels[focal.id].Spouses, src.id)
SiblingOf(focal, src) ==
    /\ src.id # focal.id
    /\ src.id \in DOMAIN inRels
    /\ \E a \in DOMAIN inRels[focal.id].Parents :
         HasRef(inRels[src.id].Parents, inRels[focal.id].Parents[a].PersonID)

SuppliedBy(label, dateStr, focal, src) ==
    /\ focal.id \in DOMAIN inRels
    /\ \/ ChildOf(focal, src) /\ Names(label, src, {Birth, Death}, dateStr, "son", "daughter", "child")
       \/ SiblingOf(focal, src) /\ Names(label, src, {Birth, Death}, dateStr, "brother", "sister", "sibling")
       \/ ParentOf(focal, src) /\ Names(label, src, {Death}, dateStr, "father", "mother", "parent")
       \/ SpouseOf(focal, src) /\ Names(label, src, {Death}, dateStr, "husband", "wife", "spouse")

\* Scenario A: P1 parent of P2, P2 parent of P3, and nothing else around P3
ScenarioA ==
    /\ {"P2", "P3"} \subseteq DOMAIN inRels
    /\ HasRef(inRels["P2"].Parents, "P1")
    /\ inRels["P3"].Parents = <<RelationRef("P2")>>
    /\ inRels["P3"].Spouses = <<>>

HasDeathOn(p, dateStr) ==
    \E a \in DOMAIN p.events :
        /\ p.events[a].Type = Death
        /\ p.events[a].Date # NilDate
        /\ DateStr(p.events[a].Date) = dateStr

\* C9: a type written by inferEventTypes is always the label of an event, on
\* the same date, of a child, sibling (shares a parent), parent or spouse of
\* the focal person; in Scenario A (P1 parent of P2, P2 parent of P3) an
\* untyped dated event of P3 never gets a label naming P1, and gets the label
\* of P2's Death when P2 has a Death on that date.
C9_RelationScope ==
    infPc = "done" =>
        /\ \A k \in DOMAIN inPersons : \A j \in DOMAIN inPersons[k].events :
            outPersons[k].events[j].Type # inPersons[k].events[j].Type =>
                \E q \in DOMAIN inPersons :
                    SuppliedBy(outPersons[k].events[j].Type,
                               DateStr(inPersons[k].events[j].Date),
                               inPersons[k], inPersons[q])
        /\ ScenarioA =>
            \A j \in DOMAIN inPersons[3].events :
                LET e == inPersons[3].events[j]
                    t == outPersons[3].events[j].Type IN
                (e.Type = EmptyType /\ e.Date # NilDate) =>
                    /\ t = EmptyType \/ t[Len(t)] # NameOf("P1")
                    /\ HasDeathOn(inPersons[2], DateStr(e.Date)) =>
                         t = Label(Death, "mother", NameOf("P2"))
                    /\ ~HasDeathOn(inPersons[2], DateStr(e.Date)) => t = EmptyType

\* Scenario A with P1 and P2 both dead on the date of P3's untyped event
C9_Witness ==
    /\ infPc = "done"
    /\ ScenarioA
    /\ inPersons[1].events = <<Event(Death, D1)>>
    /\ inPersons[2].events = <<Event(Death, D1)>>
    /\ inPersons[3].events = <<Event(EmptyType, D1)>>
    /\ outPersons[3].events = <<Event(Label(Death, "mother", "N2"), D1)>>

==========================================================================
